---------------------------- MODULE Spec2Model ----------------------------
(***************************************************************************)
(* Model of src/server.js: the plan-text pipeline                          *)
(*   parsePlanText -> section renderers -> renderStructuredHtml.           *)
(*                                                                         *)
(* A JavaScript string is a sequence of one-character strings.  A few     *)
(* literal phrases the code searches for ("Treatment Plan", "Getting You  *)
(* Comfortable", "Recommended:", an intro sentence, ...) are carried as    *)
(* one token each: such a token stands for exactly that run of            *)
(* characters, and contains none of the characters the code treats        *)
(* specially at the places where it is used.  Markup emitted by the       *)
(* templates is one token per tag ("<li>", "</li>", ...); the layout      *)
(* whitespace of the template literals is left out.                        *)
(***************************************************************************)
EXTENDS Naturals, Sequences, FiniteSets, TLC

VARIABLES
    pc,             \* position of the call being modelled
    planText,       \* renderStructuredHtml / parsePlanText argument
    patientName,    \* renderStructuredHtml argument
    therapistName,  \* renderStructuredHtml argument
    sections,       \* const sections = parsePlanText(planText)
    qrCodeHtml,     \* let qrCodeHtml
    qrCodeDataUrl,  \* const qrCodeDataUrl, what the awaited call gave (empty: null)
    section,        \* argument of a section renderer
    text,           \* argument of escapeHtml
    ret,            \* value returned by the call being modelled
    browser,        \* /api/pdf: the browser puppeteer.launch started, if any
    res             \* /api/pdf: the response sent

vars == <<pc, planText, patientName, therapistName, sections, qrCodeHtml,
          qrCodeDataUrl, section, text, ret, browser, res>>

-----------------------------------------------------------------------------
(* Bounds of the model.                                                    *)

MaxTextLen == 4
MaxLineLen == 4
MaxLines == 3
MaxGoalLines == 4
MaxSentenceLen == 5
MaxPhaseLines == 3
MaxHeaderLen == 4
MaxDocLines == 3
NumCalls == 2
MaxListLines == 4

-----------------------------------------------------------------------------
(* String primitives of JavaScript, on sequences of characters.            *)

\* the characters of the class \s that the model's inputs use
Whitespace == {" ", "\t"}

\* all sequences over S of length 0..n
SeqsUpTo(S, n) == UNION {[1..k -> S] : k \in 0..n}

RECURSIVE TrimStart(_)
TrimStart(s) ==
    IF s # <<>> /\ Head(s) \in Whitespace THEN TrimStart(Tail(s)) ELSE s

RECURSIVE TrimEnd(_)
TrimEnd(s) ==
    IF s # <<>> /\ s[Len(s)] \in Whitespace
    THEN TrimEnd(SubSeq(s, 1, Len(s) - 1))
    ELSE s

Trim(s) == TrimEnd(TrimStart(s))

\* s.startsWith(p)
StartsWith(s, p) == Len(s) >= Len(p) /\ SubSeq(s, 1, Len(p)) = p

\* s.includes(c) for a single character or phrase token c
Includes(s, c) == \E i \in 1..Len(s) : s[i] = c

\* s.indexOf(c) for a single character c, 1-based; 0 where JavaScript gives -1
IndexOf(s, c) ==
    IF Includes(s, c) THEN CHOOSE i \in 1..Len(s) : s[i] = c /\ \A j \in 1..(i - 1) : s[j] # c
    ELSE 0

\* s.split(c): the pieces between occurrences of the character c
RECURSIVE Split(_, _)
Split(s, c) ==
    LET i == IndexOf(s, c) IN
    IF i = 0 THEN <<s>>
    ELSE <<SubSeq(s, 1, i - 1)>> \o Split(SubSeq(s, i + 1, Len(s)), c)

\* parts.join(sep), sep a string
RECURSIVE Join(_, _)
Join(parts, sep) ==
    IF parts = <<>> THEN <<>>
    ELSE IF Len(parts) = 1 THEN parts[1]
    ELSE parts[1] \o sep \o Join(Tail(parts), sep)

\* concatenation of a sequence of strings: parts.join('')
Concat(parts) == Join(parts, <<>>)

-----------------------------------------------------------------------------
(* escapeHtml, server.js 292-298                                           *)

\* .replace(/\*\*/g, ''): leftmost non-overlapping occurrences of "**"
RECURSIVE StripBold(_)
StripBold(s) ==
    IF s = <<>> THEN <<>>
    ELSE IF Len(s) >= 2 /\ s[1] = "*" /\ s[2] = "*" THEN StripBold(SubSeq(s, 3, Len(s)))
    ELSE <<Head(s)>> \o StripBold(Tail(s))

\* .replace(/c/g, r) for a single character c and a replacement string r
RECURSIVE ReplaceAll(_, _, _)
ReplaceAll(s, c, r) ==
    IF s = <<>> THEN <<>>
    ELSE (IF Head(s) = c THEN r ELSE <<Head(s)>>) \o ReplaceAll(Tail(s), c, r)

AMP == <<"&", "a", "m", "p", ";">>
LT  == <<"&", "l", "t", ";">>
GT  == <<"&", "g", "t", ";">>

\* a slip the escaping could have: the bold markers are left in
escapeHtml_keepBold(t) ==
    ReplaceAll(ReplaceAll(ReplaceAll(t, "&", AMP), "<", LT), ">", GT)

escapeHtml(t) ==
    ReplaceAll(ReplaceAll(ReplaceAll(StripBold(t), "&", AMP), "<", LT), ">", GT)

-----------------------------------------------------------------------------
(* INTRO_PHRASE_PATTERNS and isIntroPhrase, server.js 354-367.             *)
(* Words are single tokens; a pattern is a sequence of items, each a class *)
(* of tokens with a repetition range, and is anchored at the end ($) or    *)
(* not.  The flag i is modelled by Lower.                                  *)

\* the capitalised words the model's inputs use, lower-cased
Lower(c) ==
    CASE c = "Here" -> "here"
      [] c = "Based" -> "based"
      [] c = "Plan" -> "plan"
      [] c = "Recommended" -> "recommended"
      [] c = "RECOMMENDED" -> "recommended"
      [] OTHER -> c

\* x, (x)?, \s* and \s+
One(S) == [cls |-> S, min |-> 1, many |-> FALSE]
Opt(S) == [cls |-> S, min |-> 0, many |-> FALSE]
Ws0    == [cls |-> Whitespace, min |-> 0, many |-> TRUE]
Ws1    == [cls |-> Whitespace, min |-> 1, many |-> TRUE]

\* (your)?\s*(personalized)?\s*(treatment|massage)?\s*
YourPersonalizedTreatment ==
    <<Opt({"your"}), Ws0, Opt({"personalized"}), Ws0, Opt({"treatment", "massage"}), Ws0>>

\* plan:?\.?$
PlanEnd == <<One({"plan"}), Opt({":"}), Opt({"."})>>

INTRO_PHRASE_PATTERNS == <<
    \* 355
    [items |-> <<One({"here"}), Ws0, One({"is", "'s"}), Ws0>> \o YourPersonalizedTreatment
                 \o <<Opt({"therapy"}), Ws0>> \o PlanEnd, anchored |-> TRUE],
    \* 356
    [items |-> <<One({"this"}), Ws1, One({"is"}), Ws1>> \o YourPersonalizedTreatment
                 \o <<Opt({"therapy"}), Ws0>> \o PlanEnd, anchored |-> TRUE],
    \* 357
    [items |-> YourPersonalizedTreatment \o <<Opt({"therapy"}), Ws0>> \o PlanEnd,
     anchored |-> TRUE],
    \* 358
    [items |-> <<One({"below"}), Ws1, One({"is", "are"}), Ws1>> \o YourPersonalizedTreatment
                 \o PlanEnd, anchored |-> TRUE],
    \* 359, alternative 've
    [items |-> <<One({"i"}), One({"'ve"}), Ws1, One({"created", "prepared", "developed"}), Ws1,
                 One({"a", "your"}), Ws0, Opt({"personalized"}), Ws0,
                 Opt({"treatment", "massage"}), Ws0, One({"plan"})>>, anchored |-> FALSE],
    \* 359, alternative " have"
    [items |-> <<One({"i"}), One({" "}), One({"have"}), Ws1,
                 One({"created", "prepared", "developed"}), Ws1,
                 One({"a", "your"}), Ws0, Opt({"personalized"}), Ws0,
                 Opt({"treatment", "massage"}), Ws0, One({"plan"})>>, anchored |-> FALSE],
    \* 360, alternative case\s+note
    [items |-> <<One({"based"}), Ws1, One({"on"}), Ws1, One({"your", "the"}), Ws1,
                 One({"case"}), Ws1, One({"note"})>>, anchored |-> FALSE],
    \* 360, alternatives assessment|session
    [items |-> <<One({"based"}), Ws1, One({"on"}), Ws1, One({"your", "the"}), Ws1,
                 One({"assessment", "session"})>>, anchored |-> FALSE],
    \* 361, alternative 's
    [items |-> <<One({"here"}), One({"'s"}), Ws1, One({"your"}), Ws1>> \o PlanEnd,
     anchored |-> TRUE],
    \* 361, alternative " is"
    [items |-> <<One({"here"}), One({" "}), One({"is"}), Ws1, One({"your"}), Ws1>> \o PlanEnd,
     anchored |-> TRUE] >>

\* pattern.test(s) for a pattern that starts with ^: items k.. match s from i
RECURSIVE MatchFrom(_, _, _, _)
MatchFrom(pat, k, s, i) ==
    IF k > Len(pat.items) THEN (pat.anchored => i = Len(s) + 1)
    ELSE LET it == pat.items[k] IN
         \E n \in it.min .. (IF it.many THEN Len(s) + 1 - i ELSE 1) :
             /\ i + n - 1 <= Len(s)
             /\ \A j \in i .. (i + n - 1) : Lower(s[j]) \in it.cls
             /\ MatchFrom(pat, k + 1, s, i + n)

isIntroPhrase(line) ==
    LET trimmed == Trim(line) IN
    \E p \in 1..Len(INTRO_PHRASE_PATTERNS) : MatchFrom(INTRO_PHRASE_PATTERNS[p], 1, trimmed, 1)

-----------------------------------------------------------------------------
(* parsePlanText, server.js 369-457                                        *)

Digit == {"0", "1", "2", "3", "4", "5", "6", "7", "8", "9"}

NoMatch == <<>>

\* number of leading whitespace characters of s
RECURSIVE LeadingWs(_)
LeadingWs(s) ==
    IF s # <<>> /\ Head(s) \in Whitespace THEN 1 + LeadingWs(Tail(s)) ELSE 0

\* a slip the header pattern could have: \d+ in place of \d
HeaderMatch_manyDigits(line) ==
    LET p == LeadingWs(line) + 1
        RECURSIVE Digits(_)
        Digits(i) == IF i <= Len(line) /\ line[i] \in Digit THEN 1 + Digits(i + 1) ELSE 0
        d == Digits(p)
        afterDot == SubSeq(line, p + d + 1, Len(line))
        rest == TrimStart(afterDot)
    IN  IF d >= 1 /\ p + d <= Len(line) /\ line[p + d] = "." /\ afterDot # <<>>
        THEN <<[number |-> line[p], rest |-> IF rest # <<>> THEN rest
                                            ELSE <<afterDot[Len(afterDot)]>>]>>
        ELSE NoMatch

\* line.match(/^\s*(\d)\.\s*(.+)$/): NoMatch, or <<[number |-> match[1], rest |-> match[2]]>>.
\* \s* is greedy and gives characters back only when (.+) would be left empty.
HeaderMatch(line) ==
    LET p == LeadingWs(line) + 1
        afterDot == SubSeq(line, p + 2, Len(line))
        rest == TrimStart(afterDot)
    IN  IF p + 1 <= Len(line) /\ line[p] \in Digit /\ line[p + 1] = "." /\ afterDot # <<>>
        THEN <<[number |-> line[p], rest |-> IF rest # <<>> THEN rest
                                            ELSE <<afterDot[Len(afterDot)]>>]>>
        ELSE NoMatch

AdditionalNotes == <<"Additional Notes">>

\* orphanedLines.filter(l => l.trim().length > 0 && !isIntroPhrase(l)), 383 and 442
IsMeaningful(l) == Trim(l) # <<>> /\ ~isIntroPhrase(l)
MeaningfulLines(orphanedLines) == SelectSeq(orphanedLines, IsMeaningful)

\* the object pushed at 385-391 and 444-450
OrphanedSection(meaningfulLines) ==
    [number |-> "0", title |-> AdditionalNotes, description |-> <<>>,
     lines |-> meaningfulLines, isOrphaned |-> TRUE]

\* a slip the title split could have: colonIndex >= 0 in place of colonIndex > 0
NewSection_colonAtStart(m) ==
    LET fullContent == Trim(m.rest)
        colonIndex == IndexOf(fullContent, ":")
        title == IF colonIndex > 0 THEN Trim(SubSeq(fullContent, 1, colonIndex - 1))
                 ELSE fullContent
        description == IF colonIndex > 0
                       THEN Trim(SubSeq(fullContent, colonIndex + 1, Len(fullContent)))
                       ELSE <<>>
    IN  [number |-> m.number, title |-> title, description |-> description,
         lines |-> IF description # <<>> THEN <<description>> ELSE <<>>,
         isOrphaned |-> FALSE]

\* 399-423: the section a header line starts (IndexOf is 1-based: colonIndex > 0 in
\* the code is colonIndex > 1 here)
NewSection(m) ==
    LET fullContent == Trim(m.rest)
        colonIndex == IndexOf(fullContent, ":")
        title == IF colonIndex > 1 THEN Trim(SubSeq(fullContent, 1, colonIndex - 1))
                 ELSE fullContent
        description == IF colonIndex > 1
                       THEN Trim(SubSeq(fullContent, colonIndex + 1, Len(fullContent)))
                       ELSE <<>>
    IN  [number |-> m.number, title |-> title, description |-> description,
         lines |-> IF description # <<>> THEN <<description>> ELSE <<>>,
         isOrphaned |-> FALSE]

\* the locals before the loop, 371-373; current = null is the empty sequence
ParseStart == [sections |-> <<>>, current |-> <<>>, orphanedLines |-> <<>>]

\* a slip the loop could have: the orphaned lines are not flushed at the first header
\* and are left to the end of the function
ParseLine_orphanLast(st, rawLine) ==
    LET line == TrimEnd(rawLine)
        match == HeaderMatch(line)
    IN  IF match # NoMatch
        THEN     [sections |-> st.sections \o st.current,
                  current |-> <<NewSection(match[1])>>,
                  orphanedLines |-> st.orphanedLines]
        ELSE IF st.current # <<>>
        THEN [st EXCEPT !.current[1].lines = Append(@, line)]
        ELSE IF Trim(line) # <<>>
        THEN [st EXCEPT !.orphanedLines = Append(@, line)]
        ELSE st

\* a slip the loop could have: blank lines and intro phrases are left out of a numbered
\* section as they are left out of the orphaned lines
ParseLine_filtersSectionLines(st, rawLine) ==
    LET line == TrimEnd(rawLine)
        match == HeaderMatch(line)
    IN  IF match # NoMatch
        THEN LET meaningfulLines == MeaningfulLines(st.orphanedLines)
                 flush == st.orphanedLines # <<>> /\ st.current = <<>>
                 s1 == IF flush /\ meaningfulLines # <<>>
                       THEN Append(st.sections, OrphanedSection(meaningfulLines))
                       ELSE st.sections
             IN  [sections |-> s1 \o st.current,
                  current |-> <<NewSection(match[1])>>,
                  orphanedLines |-> IF flush THEN <<>> ELSE st.orphanedLines]
        ELSE IF st.current # <<>>
        THEN IF IsMeaningful(line) THEN [st EXCEPT !.current[1].lines = Append(@, line)] ELSE st
        ELSE IF Trim(line) # <<>>
        THEN [st EXCEPT !.orphanedLines = Append(@, line)]
        ELSE st

\* one iteration of the loop, 375-437
ParseLine(st, rawLine) ==
    LET line == TrimEnd(rawLine)
        match == HeaderMatch(line)
    IN  IF match # NoMatch
        THEN LET meaningfulLines == MeaningfulLines(st.orphanedLines)
                 flush == st.orphanedLines # <<>> /\ st.current = <<>>
                 s1 == IF flush /\ meaningfulLines # <<>>
                       THEN Append(st.sections, OrphanedSection(meaningfulLines))
                       ELSE st.sections
             IN  [sections |-> s1 \o st.current,
                  current |-> <<NewSection(match[1])>>,
                  orphanedLines |-> IF flush THEN <<>> ELSE st.orphanedLines]
        ELSE IF st.current # <<>>
        THEN [st EXCEPT !.current[1].lines = Append(@, line)]
        ELSE IF Trim(line) # <<>>
        THEN [st EXCEPT !.orphanedLines = Append(@, line)]
        ELSE st

RECURSIVE ParseLoop(_, _)
ParseLoop(st, rawLines) ==
    IF rawLines = <<>> THEN st ELSE ParseLoop(ParseLine(st, Head(rawLines)), Tail(rawLines))

\* a slip the end of the function could have: the last section is never pushed
ParseEnd_dropLast(st) ==
    LET meaningfulLines == MeaningfulLines(st.orphanedLines)
    IN  IF st.orphanedLines # <<>> /\ meaningfulLines # <<>>
        THEN Append(st.sections, OrphanedSection(meaningfulLines))
        ELSE st.sections

\* a slip the end of the function could have: the lines of a text without a header
\* are not gathered into a section
ParseEnd_noOrphans(st) == st.sections \o st.current

\* after the loop, 439-456
ParseEnd(st) ==
    LET meaningfulLines == MeaningfulLines(st.orphanedLines)
        s1 == IF st.orphanedLines # <<>> /\ meaningfulLines # <<>>
              THEN Append(st.sections, OrphanedSection(meaningfulLines))
              ELSE st.sections
    IN  s1 \o st.current

\* (planText || '').split('\n'), then the loop and the end
parsePlanText(pt) == ParseEnd(ParseLoop(ParseStart, Split(pt, "\n")))

-----------------------------------------------------------------------------
(* renderGoalsSection 459-519 and renderKeyActionsSection 521-581          *)

\* .replace(/^[,\s]+|[,\s]+$/g, '')
RECURSIVE StripCommaWsStart(_)
StripCommaWsStart(s) ==
    IF s # <<>> /\ Head(s) \in Whitespace \cup {","} THEN StripCommaWsStart(Tail(s)) ELSE s

RECURSIVE StripCommaWsEnd(_)
StripCommaWsEnd(s) ==
    IF s # <<>> /\ s[Len(s)] \in Whitespace \cup {","}
    THEN StripCommaWsEnd(SubSeq(s, 1, Len(s) - 1))
    ELSE s

StripCommaWs(s) == StripCommaWsEnd(StripCommaWsStart(s))

\* xs.slice(0, n)
Slice0(xs, n) == SubSeq(xs, 1, IF Len(xs) < n THEN Len(xs) ELSE n)

\* xs.map(x => `<li>${escapeHtml(x)}</li>`).join('')
ListItemsHtml(xs) ==
    Concat([i \in 1..Len(xs) |-> <<"<li>">> \o escapeHtml(xs[i]) \o <<"</li>">>])

\* <h2><span class="num">${section.number}.</span> ${escapeHtml(section.title)}</h2>
NumberedHeading(sec) ==
    <<"<h2>", "<span class=num>", sec.number, ".", "</span>", " ">>
        \o escapeHtml(sec.title) \o <<"</h2>">>

\* 463-468: the loop that fills goals
RECURSIVE GoalsCandidates(_)
GoalsCandidates(lines) ==
    IF lines = <<>> THEN <<>>
    ELSE LET trimmedLine == Trim(Head(lines)) IN
         (IF trimmedLine # <<>> /\ ~StartsWith(trimmedLine, <<"\"">>)
                                /\ ~StartsWith(trimmedLine, <<"*">>)
          THEN <<trimmedLine>> ELSE <<>>) \o GoalsCandidates(Tail(lines))

\* 496-506: sentences.forEach
RECURSIVE GoalsFromSentences(_)
GoalsFromSentences(sentences) ==
    IF sentences = <<>> THEN <<>>
    ELSE LET cleanSentence == Trim(Head(sentences))
             finalSentence == StripCommaWs(cleanSentence)
         IN  (IF cleanSentence # <<>> /\ ~Includes(cleanSentence, "*") /\ finalSentence # <<>>
              THEN <<finalSentence>> ELSE <<>>) \o GoalsFromSentences(Tail(sentences))

\* 487-507: the fallback
GoalsFallback(goals) ==
    IF goals # <<>>
    THEN LET allText == Join(goals, <<" ">>)
             sentences == SelectSeq(Split(allText, "."), LAMBDA x : Trim(x) # <<>>)
         IN  GoalsFromSentences(sentences)
    ELSE goals

\* a slip the renderer could have: every separate line is rendered, not the first 3
renderGoalsSection_noCap(sec) ==
    LET goals == GoalsCandidates(sec.lines) IN
    <<"<section class=section>">> \o NumberedHeading(sec)
        \o <<"<ul>">> \o ListItemsHtml(IF Len(goals) >= 3 THEN goals ELSE GoalsFallback(goals))
        \o <<"</ul>", "</section>">>

\* a slip the fallback could have: the sentences are not cleaned of commas
renderGoalsSection_noStrip(sec) ==
    LET goals == GoalsCandidates(sec.lines) IN
    <<"<section class=section>">> \o NumberedHeading(sec)
        \o <<"<ul>">>
        \o ListItemsHtml(IF Len(goals) >= 3 THEN Slice0(goals, 3)
                         ELSE IF goals = <<>> THEN <<>>
                         ELSE SelectSeq([i \in 1..Len(Split(Join(goals, <<" ">>), ".")) |->
                                            Trim(Split(Join(goals, <<" ">>), ".")[i])],
                                        LAMBDA x : x # <<>> /\ ~Includes(x, "*")))
        \o <<"</ul>", "</section>">>

renderGoalsSection(sec) ==
    LET goals == GoalsCandidates(sec.lines) IN
    IF Len(goals) >= 3
    THEN LET finalGoals == SelectSeq(Slice0(goals, 3), LAMBDA goal : Len(goal) > 0) IN
         <<"<section class=section>">> \o NumberedHeading(sec)
             \o <<"<ul>">> \o ListItemsHtml(finalGoals) \o <<"</ul>", "</section>">>
    ELSE <<"<section class=section>">> \o NumberedHeading(sec)
             \o <<"<ul>">> \o ListItemsHtml(GoalsFallback(goals)) \o <<"</ul>", "</section>">>

\* a slip one of the two copies could have: only this one also skips the lines
\* that start with a dash
RECURSIVE ActionsCandidates_skipsDash(_)
ActionsCandidates_skipsDash(lines) ==
    IF lines = <<>> THEN <<>>
    ELSE LET trimmedLine == Trim(Head(lines)) IN
         (IF trimmedLine # <<>> /\ ~StartsWith(trimmedLine, <<"\"">>)
                                /\ ~StartsWith(trimmedLine, <<"*">>)
                                /\ ~StartsWith(trimmedLine, <<"-">>)
          THEN <<trimmedLine>> ELSE <<>>) \o ActionsCandidates_skipsDash(Tail(lines))

\* 525-530: the loop that fills actions
RECURSIVE ActionsCandidates(_)
ActionsCandidates(lines) ==
    IF lines = <<>> THEN <<>>
    ELSE LET trimmedLine == Trim(Head(lines)) IN
         (IF trimmedLine # <<>> /\ ~StartsWith(trimmedLine, <<"\"">>)
                                /\ ~StartsWith(trimmedLine, <<"*">>)
          THEN <<trimmedLine>> ELSE <<>>) \o ActionsCandidates(Tail(lines))

\* 558-568: sentences.forEach
RECURSIVE ActionsFromSentences(_)
ActionsFromSentences(sentences) ==
    IF sentences = <<>> THEN <<>>
    ELSE LET cleanSentence == Trim(Head(sentences))
             finalSentence == StripCommaWs(cleanSentence)
         IN  (IF cleanSentence # <<>> /\ ~Includes(cleanSentence, "*") /\ finalSentence # <<>>
              THEN <<finalSentence>> ELSE <<>>) \o ActionsFromSentences(Tail(sentences))

\* 549-569: the fallback
ActionsFallback(actions) ==
    IF actions # <<>>
    THEN LET allText == Join(actions, <<" ">>)
             sentences == SelectSeq(Split(allText, "."), LAMBDA x : Trim(x) # <<>>)
         IN  ActionsFromSentences(sentences)
    ELSE actions

renderKeyActionsSection(sec) ==
    LET actions == ActionsCandidates(sec.lines) IN
    IF Len(actions) >= 3
    THEN LET finalActions == SelectSeq(Slice0(actions, 3), LAMBDA action : Len(action) > 0) IN
         <<"<section class=section>">> \o NumberedHeading(sec)
             \o <<"<ol>">> \o ListItemsHtml(finalActions) \o <<"</ol>", "</section>">>
    ELSE <<"<section class=section>">> \o NumberedHeading(sec)
             \o <<"<ol>">> \o ListItemsHtml(ActionsFallback(actions)) \o <<"</ol>", "</section>">>

-----------------------------------------------------------------------------
(* renderTreatmentPlanSection, server.js 583-663                           *)

GettingYouComfortable == "Getting You Comfortable"
KeepingYouAtYourBest == "Keeping You at Your Best"

\* 592
IsPhaseHeader(trimmedLine) ==
    Includes(trimmedLine, GettingYouComfortable) \/ Includes(trimmedLine, KeepingYouAtYourBest)

\* number of consecutive positions of t from i on whose character is in S / not in S
RECURSIVE RunIn(_, _, _)
RunIn(t, i, S) == IF i <= Len(t) /\ t[i] \in S THEN 1 + RunIn(t, i + 1, S) ELSE 0
RECURSIVE RunNotIn(_, _, _)
RunNotIn(t, i, S) == IF i <= Len(t) /\ t[i] \notin S THEN 1 + RunNotIn(t, i + 1, S) ELSE 0

\* the rest of the pattern, \*?\*?\s*\(([^)]+)\), matched at position e of t:
\* NoMatch or <<the text captured by ([^)]+)>>
PhaseHeaderTail(t, e) ==
    LET stars == RunIn(t, e, {"*"})
        f == e + (IF stars > 2 THEN 2 ELSE stars)
        g == f + RunIn(t, f, Whitespace)
        n == RunNotIn(t, g + 1, {")"})
    IN  IF g <= Len(t) /\ t[g] = "(" /\ n >= 1 /\ g + n + 1 <= Len(t)
        THEN <<SubSeq(t, g + 1, g + n)>>
        ELSE NoMatch

\* the match that starts at position s: ([^*]+) begins after at most two asterisks
\* and is as long as the rest of the pattern allows
PhaseHeaderMatchAt(t, s) ==
    LET stars == RunIn(t, s, {"*"})
        p == s + (IF stars > 2 THEN 2 ELSE stars)
        run == RunNotIn(t, p, {"*"})
        ok == {n \in 1..run : PhaseHeaderTail(t, p + n) # NoMatch}
    IN  IF ok = {} THEN NoMatch
        ELSE LET n == CHOOSE m \in ok : \A k \in ok : k <= m IN
             <<[title |-> SubSeq(t, p, p + n - 1), subtitle |-> PhaseHeaderTail(t, p + n)[1]]>>

\* trimmedLine.match(/\*?\*?([^*]+)\*?\*?\s*\(([^)]+)\)/): the leftmost match
PhaseHeaderMatch(t) ==
    LET starts == {s \in 1..Len(t) : PhaseHeaderMatchAt(t, s) # NoMatch} IN
    IF starts = {} THEN NoMatch
    ELSE PhaseHeaderMatchAt(t, CHOOSE s \in starts : \A r \in starts : s <= r)

\* trimmedLine.match(/^Recommended:\s*(.+)/i): NoMatch or <<the text captured by (.+)>>
RecommendedMatch(t) ==
    LET afterColon == SubSeq(t, 3, Len(t))
        rest == TrimStart(afterColon)
    IN  IF Len(t) >= 3 /\ Lower(t[1]) = "recommended" /\ t[2] = ":"
        THEN <<IF rest # <<>> THEN rest ELSE <<afterColon[Len(afterColon)]>> >>
        ELSE NoMatch

\* .replace(/\*+/g, '')
RemoveStars(t) == SelectSeq(t, LAMBDA c : c # "*")

\* 597-614: the phase a header line opens
NewPhase(trimmedLine) ==
    LET headerMatch == PhaseHeaderMatch(trimmedLine) IN
    IF headerMatch # NoMatch
    THEN [title |-> Trim(headerMatch[1].title), subtitle |-> Trim(headerMatch[1].subtitle),
          content |-> <<>>, recommended |-> <<>>]
    ELSE [title |-> Trim(RemoveStars(trimmedLine)), subtitle |-> <<>>,
          content |-> <<>>, recommended |-> <<>>]

\* a slip the locals could have: the loop starts inside an untitled phase
PhaseStart_openPhase ==
    [phases |-> <<>>,
     currentPhase |-> <<[title |-> <<>>, subtitle |-> <<>>, content |-> <<>>, recommended |-> <<>>]>>]

\* the locals before the loop, 585-586; currentPhase = null is the empty sequence
PhaseStart == [phases |-> <<>>, currentPhase |-> <<>>]

\* a slip the loop could have: the open phase is not pushed when the next header comes
PhaseLine_dropOpen(st, line) ==
    LET trimmedLine == Trim(line) IN
    IF IsPhaseHeader(trimmedLine)
    THEN [phases |-> st.phases, currentPhase |-> <<NewPhase(trimmedLine)>>]
    ELSE IF st.currentPhase # <<>>
    THEN LET recommendedMatch == RecommendedMatch(trimmedLine) IN
         IF recommendedMatch # NoMatch
         THEN [st EXCEPT !.currentPhase[1].recommended = Trim(recommendedMatch[1])]
         ELSE IF trimmedLine # <<>> /\ ~StartsWith(trimmedLine, <<"*", "*">>)
         THEN [st EXCEPT !.currentPhase[1].content = Append(@, trimmedLine)]
         ELSE st
    ELSE st

\* one iteration of the loop, 588-625
PhaseLine(st, line) ==
    LET trimmedLine == Trim(line) IN
    IF IsPhaseHeader(trimmedLine)
    THEN [phases |-> st.phases \o st.currentPhase, currentPhase |-> <<NewPhase(trimmedLine)>>]
    ELSE IF st.currentPhase # <<>>
    THEN LET recommendedMatch == RecommendedMatch(trimmedLine) IN
         IF recommendedMatch # NoMatch
         THEN [st EXCEPT !.currentPhase[1].recommended = Trim(recommendedMatch[1])]
         ELSE IF trimmedLine # <<>> /\ ~StartsWith(trimmedLine, <<"*", "*">>)
         THEN [st EXCEPT !.currentPhase[1].content = Append(@, trimmedLine)]
         ELSE st
    ELSE st

RECURSIVE PhaseLoop(_, _)
PhaseLoop(st, lines) ==
    IF lines = <<>> THEN st ELSE PhaseLoop(PhaseLine(st, Head(lines)), Tail(lines))

\* 583-629: the phases of a section
Phases(sec) ==
    LET st == PhaseLoop(PhaseStart, sec.lines) IN st.phases \o st.currentPhase

\* 637-656: the card of one phase
PhaseCard(phase) ==
    LET contentText == Trim(Join(phase.content, <<" ">>)) IN
    <<"<div class=treatment-phase-card>", "<div class=treatment-phase-header>",
      "<span class=treatment-phase-title>">> \o escapeHtml(phase.title) \o <<"</span>">>
    \o (IF phase.subtitle # <<>>
        THEN <<"<span class=treatment-phase-subtitle>", "(">> \o escapeHtml(phase.subtitle)
                 \o <<")", "</span>">>
        ELSE <<>>)
    \o <<"</div>", "<div class=treatment-phase-content>", "<p>">>
    \o escapeHtml(contentText) \o <<"</p>", "</div>">>
    \o (IF phase.recommended # <<>>
        THEN <<"<div class=treatment-phase-recommended>", "<strong>Recommended:</strong>", " ">>
                 \o escapeHtml(phase.recommended) \o <<"</div>">>
        ELSE <<>>)
    \o <<"</div>">>

renderTreatmentPlanSection(sec) ==
    LET phases == Phases(sec) IN
    <<"<section class=section treatment-plan-section>">> \o NumberedHeading(sec)
        \o Concat([i \in 1..Len(phases) |-> PhaseCard(phases[i])])
        \o <<"</section>">>

-----------------------------------------------------------------------------
(* renderStructuredHtml, server.js 665-921                                 *)

\* 25-34; a name and a URL are one token each
THERAPIST_BOOKING_URLS ==
    [n \in {"Amanda O'Dempsey", "Elle Badrak", "Frederic Impens", "Katie Harders",
            "Nicole Grimshaw", "Payton Windsor", "Sarah Allcock", "Trent Ousby"} |->
        CASE n = "Amanda O'Dempsey" -> "https://mygcphysio.bookings.pracsuite.com/?p=4819"
          [] n = "Elle Badrak" -> "https://mygcphysio.bookings.pracsuite.com/?p=530"
          [] n = "Frederic Impens" -> "https://mygcphysio.bookings.pracsuite.com/?p=534"
          [] n = "Katie Harders" -> "https://mygcphysio.bookings.pracsuite.com/?p=533"
          [] n = "Nicole Grimshaw" -> "https://mygcphysio.bookings.pracsuite.com/?p=2179"
          [] n = "Payton Windsor" -> "https://mygcphysio.bookings.pracsuite.com/?p=4522"
          [] n = "Sarah Allcock" -> "https://mygcphysio.bookings.pracsuite.com/?p=5446"
          [] n = "Trent Ousby" -> "https://mygcphysio.bookings.pracsuite.com/?p=2410"]

\* 26-33 is an object literal: a lookup also finds what Object.prototype provides,
\* and what it finds there is a function, not a URL string
ObjectPrototypeKeys == {"constructor", "toString"}

\* 671: therapistName && THERAPIST_BOOKING_URLS[therapistName]
HasBookingUrl(name) ==
    Len(name) = 1 /\ name[1] \in DOMAIN THERAPIST_BOOKING_URLS \cup ObjectPrototypeKeys

\* 675-684
QrCodeBlock(name, url) ==
    <<"<div class=qr-code-container>", "<div class=qr-code-label>",
      "<a href=", THERAPIST_BOOKING_URLS[name[1]], " target=_blank class=booking-link>",
      "Book with ">>
    \o name
    \o <<"</a>", "</div>", "<div class=qr-code-wrapper>", "<img src=",
         url, " alt=", "QR Code for ">>
    \o name
    \o <<" class=qr-code />", "</div>", "</div>">>

\* a slip the QR branch could have: the block is built whatever the call gave
QrCodeHtmlOf_unguarded(name, url) ==
    IF name[1] \in DOMAIN THERAPIST_BOOKING_URLS
    THEN QrCodeBlock(name, IF url # <<>> THEN url[1] ELSE "null")
    ELSE <<>>

\* 670, 674-685: qrCodeHtml after `if (qrCodeDataUrl) {...}`
QrCodeHtmlOf(name, url) == IF url # <<>> THEN QrCodeBlock(name, url[1]) ELSE <<>>

BulletMarker == {"-", "*", "U+2022"}

\* length of the match of /^\s*[-*U+2022]\s+/ at the start of l, 0 when there is none
BulletPrefixLen(l) ==
    LET w == RunIn(l, 1, Whitespace)
        g == RunIn(l, w + 2, Whitespace)
    IN  IF w + 1 <= Len(l) /\ l[w + 1] \in BulletMarker /\ g >= 1 THEN w + 1 + g ELSE 0

\* `<ul>${bullets.join('')}</ul>`
BulletList(bullets) == <<"<ul>">> \o Concat(bullets) \o <<"</ul>">>

\* 696-706: one iteration of the loop of an orphaned section
OrphanedLine(st, l) ==
    IF BulletPrefixLen(l) > 0
    THEN [st EXCEPT !.bullets = Append(@, <<"<li>">>
              \o escapeHtml(SubSeq(l, BulletPrefixLen(l) + 1, Len(l))) \o <<"</li>">>)]
    ELSE IF Trim(l) # <<>>
    THEN [items |-> (IF st.bullets # <<>> THEN Append(st.items, BulletList(st.bullets))
                     ELSE st.items) \o << <<"<p>">> \o escapeHtml(l) \o <<"</p>">> >>,
          bullets |-> <<>>]
    ELSE st

RECURSIVE OrphanedLoop(_, _)
OrphanedLoop(st, lines) ==
    IF lines = <<>> THEN st ELSE OrphanedLoop(OrphanedLine(st, Head(lines)), Tail(lines))

\* 695-717
renderOrphanedSection(sec) ==
    LET st == OrphanedLoop([items |-> <<>>, bullets |-> <<>>], sec.lines)
        items == IF st.bullets # <<>> THEN Append(st.items, BulletList(st.bullets)) ELSE st.items
    IN  <<"<section class=section orphaned-section>", "<h2>">> \o escapeHtml(sec.title)
            \o <<"</h2>">> \o Join(items, <<"\n">>) \o <<"</section>">>

\* a slip the loop could have: a paragraph does not flush the pending bullet list
GenericLine_noFlush(st, l) ==
    IF BulletPrefixLen(l) > 0
    THEN [st EXCEPT !.bullets = Append(@, <<"<li>">>
              \o escapeHtml(SubSeq(l, BulletPrefixLen(l) + 1, Len(l))) \o <<"</li>">>)]
    ELSE IF Trim(l) # <<>>
    THEN [st EXCEPT !.items = Append(@, <<"<p>">> \o escapeHtml(l) \o <<"</p>">>)]
    ELSE st

\* 734-744: one iteration of the loop of any other section
GenericLine(st, l) ==
    IF BulletPrefixLen(l) > 0
    THEN [st EXCEPT !.bullets = Append(@, <<"<li>">>
              \o escapeHtml(SubSeq(l, BulletPrefixLen(l) + 1, Len(l))) \o <<"</li>">>)]
    ELSE IF Trim(l) # <<>>
    THEN [items |-> (IF st.bullets # <<>> THEN Append(st.items, BulletList(st.bullets))
                     ELSE st.items) \o << <<"<p>">> \o escapeHtml(l) \o <<"</p>">> >>,
          bullets |-> <<>>]
    ELSE st

RECURSIVE GenericLoop(_, _)
GenericLoop(st, lines) ==
    IF lines = <<>> THEN st ELSE GenericLoop(GenericLine(st, Head(lines)), Tail(lines))

\* 734-754
renderGenericSection(sec) ==
    LET st == GenericLoop([items |-> <<>>, bullets |-> <<>>], sec.lines)
        items == IF st.bullets # <<>> THEN Append(st.items, BulletList(st.bullets)) ELSE st.items
    IN  <<"<section class=section>">> \o NumberedHeading(sec)
            \o Join(items, <<"\n">>) \o <<"</section>">>

\* a slip the dispatch could have: Goals chosen by the number alone
RenderSection_goalsByNumber(sec) ==
    IF sec.isOrphaned THEN renderOrphanedSection(sec)
    ELSE IF sec.number = "5" /\ Includes(sec.title, "Treatment Plan")
    THEN renderTreatmentPlanSection(sec)
    ELSE IF sec.number = "3" THEN renderGoalsSection(sec)
    ELSE IF sec.number = "4" /\ Includes(sec.title, "Key Actions")
    THEN renderKeyActionsSection(sec)
    ELSE renderGenericSection(sec)

\* 688-755: the callback of sections.map
RenderSection(sec) ==
    IF sec.isOrphaned THEN renderOrphanedSection(sec)
    ELSE IF sec.number = "5" /\ Includes(sec.title, "Treatment Plan")
    THEN renderTreatmentPlanSection(sec)
    ELSE IF sec.number = "3" /\ Includes(sec.title, "Goals") THEN renderGoalsSection(sec)
    ELSE IF sec.number = "4" /\ Includes(sec.title, "Key Actions")
    THEN renderKeyActionsSection(sec)
    ELSE renderGenericSection(sec)

\* sections.map(...).join('\n')
SectionHtml(secs) == Join([i \in 1..Len(secs) |-> RenderSection(secs[i])], <<"\n">>)

\* a slip the fallback could have: the newlines are left in the paragraph
FallbackHtml_keepNewlines(pt) ==
    <<"<div class=section>", "<p>">> \o escapeHtml(pt) \o <<"</p>", "</div>">>

\* 920: `<div class="section"><p>${escapeHtml(planText).replace(/\n/g,'<br/>')}</p></div>`
FallbackHtml(pt) ==
    <<"<div class=section>", "<p>">> \o ReplaceAll(escapeHtml(pt), "\n", <<"<br/>">>)
        \o <<"</p>", "</div>">>

\* new Date().toLocaleDateString('en-GB', ...): display only
Today == "dd/mm/yyyy"

\* 757-920: the page; the style sheet is one token
Document(pt, patient, therapist, qr, sectionHtml) ==
    <<"<!doctype html>", "<html>", "<head>", "<title>",
      "Gold Coast Physio & Sports Health - Massage Treatment Plan for ">>
    \o (IF patient # <<>> THEN patient ELSE <<"Patient">>)
    \o <<"</title>", "<style>", "</head>", "<body>", "<div class=page>", "<header>", "<img>",
         "<div class=title>", "<h1>", "Massage Treatment Plan", "</h1>">>
    \o (IF patient # <<>>
        THEN <<"<div class=patient-info>", "Patient: ">> \o escapeHtml(patient)
                 \o <<" | Date: ", Today, " | Therapist: ">> \o escapeHtml(therapist)
                 \o <<"</div>">>
        ELSE <<>>)
    \o <<"</div>">> \o qr \o <<"</header>", "<main>">>
    \o (IF sectionHtml # <<>> THEN sectionHtml ELSE FallbackHtml(pt))
    \o <<"</main>", "<footer>", "<div>", "Generated on ", Today, "</div>",
         "<div class=accent>", "mygcphysio.com.au | (07) 5500 6470", "</div>", "</footer>",
         "</div>", "</body>", "</html>">>

-----------------------------------------------------------------------------
(* SpecEscape: escapeHtml applied once, then again to its own result.      *)

EscapeAlphabet == {"&", "<", ">", "*", "a"}

Idle == <<>>

InitEscape ==
    /\ pc = "escape"
    /\ text \in SeqsUpTo(EscapeAlphabet, MaxTextLen)
    /\ ret = Idle
    /\ planText = Idle /\ patientName = Idle /\ therapistName = Idle
    /\ sections = Idle /\ qrCodeHtml = Idle /\ qrCodeDataUrl = Idle /\ browser = Idle /\ res = Idle /\ section = Idle

\* ret = escapeHtml(text)
EscapeOnce ==
    /\ pc = "escape"
    /\ ret' = escapeHtml(text)
    /\ pc' = "escaped"
    /\ UNCHANGED <<browser, res, planText, patientName, therapistName, sections, qrCodeHtml, qrCodeDataUrl,
                   section, text>>

\* ret = escapeHtml(escapeHtml(text))
EscapeAgain ==
    /\ pc = "escaped"
    /\ ret' = escapeHtml(ret)
    /\ pc' = "escapedTwice"
    /\ UNCHANGED <<browser, res, planText, patientName, therapistName, sections, qrCodeHtml, qrCodeDataUrl,
                   section, text>>

NextEscape == EscapeOnce \/ EscapeAgain

SpecEscape == InitEscape /\ [][NextEscape]_vars

\* number of positions of s that hold the character c
RECURSIVE Count(_, _)
Count(s, c) ==
    IF s = <<>> THEN 0 ELSE (IF Head(s) = c THEN 1 ELSE 0) + Count(Tail(s), c)

HasBold(s) == \E i \in 1..(Len(s) - 1) : s[i] = "*" /\ s[i + 1] = "*"

HasMarkupChar(s) == Includes(s, "&") \/ Includes(s, "<") \/ Includes(s, ">")

\* every "&" of s starts one of the three entities
AllAmpsAreEntities(s) ==
    \A i \in 1..Len(s) :
        s[i] = "&" =>
            \E e \in {AMP, LT, GT} :
                i + Len(e) - 1 <= Len(s) /\ SubSeq(s, i, i + Len(e) - 1) = e

(* C10 as stated: escaping is idempotent, for every string s               *)
(* escapeHtml(escapeHtml(s)) = escapeHtml(s).                              *)
C10_Idempotent ==
    pc = "escapedTwice" => ret = escapeHtml(text)

(* C10 amended: one application removes every "**" (none is left, none is  *)
(* escaped), leaves no "<" or ">", and turns each "&", "<", ">" into       *)
(* exactly one entity; a second application changes nothing exactly when   *)
(* the text holds none of "&", "<", ">" (otherwise the "&" of each entity  *)
(* is escaped again: "&" -> "&amp;" -> "&amp;amp;").                       *)
C10_EscapeOnceIdempotentOnPlain ==
    /\ pc = "escaped" =>
          /\ ~HasBold(ret)
          /\ ~Includes(ret, "<") /\ ~Includes(ret, ">")
          /\ AllAmpsAreEntities(ret)
          /\ Count(ret, "&") = Count(text, "&") + Count(text, "<") + Count(text, ">")
          /\ Count(ret, "*") <= Count(text, "*")
          /\ (text = <<"&">> => ret = AMP)
    /\ pc = "escapedTwice" =>
          /\ (ret = escapeHtml(text)) <=> ~HasMarkupChar(text)
          /\ ~HasBold(ret)
          /\ (text = <<"&">> => ret = <<"&", "a", "m", "p", ";", "a", "m", "p", ";">>)

\* a text with bold markers and an ampersand has been escaped twice
C10_Witness ==
    /\ pc = "escapedTwice"
    /\ HasBold(text) /\ Includes(text, "&")
    /\ ret # escapeHtml(text)

-----------------------------------------------------------------------------
(* SpecParse: parsePlanText on a plan text.                                *)

ParseAlphabet == {" ", "1", ".", ":", "a", "plan"}

\* "2. a"
PlainHeader == <<"2", ".", " ", "a">>

\* lines that exercise the branches of the loop together
ParseLines == {
    <<>>,
    <<"a">>,
    <<" ", "-", " ", "a", " ">>,
    <<"Here", " ", "is", " ", "your", " ", "plan", ":">>,
    <<"Based", " ", "on", " ", "your", " ", "assessment", ",", " ", "a">>,
    <<"1", ".", " ", "a", ":", " ", "b", ":", "c">>,
    PlainHeader,
    <<" ", "3", ".", ":", "a">>,
    <<"2", ".", "5", " ", "a">>,
    <<"1", "2", ".", " ", "a">>,
    <<"0", ".", " ", "a", " ", ":", "b", " ">>,
    <<"4", ".", " ">> }

\* "1. a: b" ... "8. a: b"
EightHeaders ==
    [k \in 1..8 |-> <<(<<"1", "2", "3", "4", "5", "6", "7", "8">>)[k],
                      ".", " ", "a", ":", " ", "b">>]

\* "Here is your personalized treatment plan." / "" / "a." / "1. a: a"
OrphanScenario ==
    << <<"Here", " ", "is", " ", "your", " ", "personalized", " ", "treatment", " ", "plan", ".">>,
       <<>>,
       <<"a", ".">>,
       <<"1", ".", " ", "a", ":", " ", "a">> >>

NL == <<"\n">>

PlanTexts ==
    {Join(ls, NL) : ls \in SeqsUpTo(ParseLines, MaxLines)}
    \cup {l : l \in SeqsUpTo(ParseAlphabet, MaxLineLen)}
    \cup {Join(<<PlainHeader, l>>, NL) : l \in SeqsUpTo(ParseAlphabet, MaxLineLen)}
    \cup {Join(<<l, PlainHeader>>, NL) : l \in SeqsUpTo(ParseAlphabet, MaxLineLen)}
    \cup {Join(EightHeaders, NL), Join(OrphanScenario, NL)}

InitParse ==
    /\ pc = "parse"
    /\ planText \in PlanTexts
    /\ sections = Idle
    /\ patientName = Idle /\ therapistName = Idle /\ qrCodeHtml = Idle /\ qrCodeDataUrl = Idle /\ browser = Idle /\ res = Idle
    /\ section = Idle /\ text = Idle /\ ret = Idle

\* sections = parsePlanText(planText)
Parse ==
    /\ pc = "parse"
    /\ sections' = parsePlanText(planText)
    /\ pc' = "parsed"
    /\ UNCHANGED <<browser, res, planText, patientName, therapistName, qrCodeHtml, qrCodeDataUrl, section, text, ret>>

NextParse == Parse

SpecParse == InitParse /\ [][NextParse]_vars

\* ---- the claims' vocabulary, stated on the input text -------------------

\* the lines of the plan text, trailing whitespace removed
InputLines == LET ls == Split(planText, "\n") IN [i \in 1..Len(ls) |-> TrimEnd(ls[i])]

\* position of the digit of a line of the shape <ws>* <digit> "." ..., else 0
DigitPos(l) ==
    IF \E p \in 1..Len(l) : l[p] \notin Whitespace
    THEN LET p == CHOOSE q \in 1..Len(l) : l[q] \notin Whitespace
                                           /\ \A j \in 1..(q - 1) : l[j] \in Whitespace
         IN  IF l[p] \in Digit /\ p + 1 <= Len(l) /\ l[p + 1] = "." THEN p ELSE 0
    ELSE 0

\* a header line as the code takes it: <ws>* <digit> "." and at least one more character
IsHeaderLine(l) == DigitPos(l) > 0 /\ DigitPos(l) + 2 <= Len(l)

\* a header line as C4 states it: <ws>* <digit> "." <ws> and a non-empty remainder
IsHeaderLineAsStated(l) ==
    /\ IsHeaderLine(l)
    /\ l[DigitPos(l) + 2] \in Whitespace
    /\ Trim(SubSeq(l, DigitPos(l) + 2, Len(l))) # <<>>

\* the header remainder: what follows the period, without surrounding whitespace
Remainder(l) == Trim(SubSeq(l, DigitPos(l) + 2, Len(l)))

\* indices (ascending) of the header lines among ls
HeaderIndicesOf(ls) ==
    SelectSeq([i \in 1..Len(ls) |-> i], LAMBDA i : IsHeaderLine(ls[i]))
AsStatedIndicesOf(ls) ==
    SelectSeq([i \in 1..Len(ls) |-> i], LAMBDA i : IsHeaderLineAsStated(ls[i]))

HeaderIndices == HeaderIndicesOf(InputLines)

IsReal(sec) == ~sec.isOrphaned
IsOrph(sec) == sec.isOrphaned
RealSections == SelectSeq(sections, IsReal)

\* the lines before the first header (all lines when there is none)
PreHeaderLines ==
    IF HeaderIndices = <<>> THEN InputLines
    ELSE SubSeq(InputLines, 1, HeaderIndices[1] - 1)

IsBlank(l) == \A i \in 1..Len(l) : l[i] \in Whitespace
NotBlankNotIntro(l) == ~IsBlank(l) /\ ~isIntroPhrase(l)

(* C1: one non-orphaned section per header line, in the order of the       *)
(* headers, each numbered with its header's digit; "1. .." to "8. .."      *)
(* gives exactly 8 sections numbered 1..8 in that order.                   *)
C1_OneSectionPerHeader ==
    pc = "parsed" =>
        /\ Len(RealSections) = Len(HeaderIndices)
        /\ \A k \in 1..Len(HeaderIndices) :
               LET l == InputLines[HeaderIndices[k]] IN
               Len(RealSections) >= k => RealSections[k].number = l[DigitPos(l)]
        /\ planText = Join(EightHeaders, NL) =>
               /\ Len(sections) = 8
               /\ [k \in 1..8 |-> sections[k].number]
                    = <<"1", "2", "3", "4", "5", "6", "7", "8">>

\* a text with three headers in non-ascending order, and the 8-header text, parsed
C1_Witness ==
    /\ pc = "parsed"
    /\ Len(HeaderIndices) = 3
    /\ Len(sections) = 3
    /\ <<sections[1].number, sections[2].number, sections[3].number>> = <<"2", "1", "3">>

(* C2: at most one orphaned section; present iff some pre-header line is   *)
(* non-blank and not an intro phrase; its lines are those lines in order;  *)
(* number "0", title "Additional Notes", isOrphaned; always first.         *)
C2_OrphanedSection ==
    pc = "parsed" =>
        LET meaningful == SelectSeq(PreHeaderLines, NotBlankNotIntro) IN
        /\ Len(SelectSeq(sections, IsOrph)) <= 1
        /\ (Len(SelectSeq(sections, IsOrph)) = 1) <=> (meaningful # <<>>)
        /\ meaningful # <<>> =>
               /\ sections # <<>>
               /\ sections[1] = [number |-> "0", title |-> <<"Additional Notes">>,
                                 description |-> <<>>, lines |-> meaningful,
                                 isOrphaned |-> TRUE]
        /\ \A i \in 2..Len(sections) : ~sections[i].isOrphaned

\* an intro line and a blank line were dropped, a note kept, and section 1 follows
C2_Witness ==
    /\ pc = "parsed"
    /\ planText = Join(OrphanScenario, NL)
    /\ Len(sections) = 2
    /\ sections[1].isOrphaned /\ sections[1].lines = << <<"a", ".">> >>
    /\ ~sections[2].isOrphaned /\ sections[2].number = "1"

\* title and description as C3 states them, for a header remainder r
TitleAsStated(r) ==
    IF Includes(r, ":") THEN Trim(SubSeq(r, 1, IndexOf(r, ":") - 1)) ELSE r
DescriptionAsStated(r) ==
    IF Includes(r, ":") THEN Trim(SubSeq(r, IndexOf(r, ":") + 1, Len(r))) ELSE <<>>

(* C3 as stated: the title of a header's section is the text before the    *)
(* first colon of the remainder and the description the text after it;     *)
(* with no colon the title is the whole remainder, the description empty.  *)
C3_TitleDescriptionAsStated ==
    pc = "parsed" =>
        \A k \in 1..Len(HeaderIndices) :
            LET r == Remainder(InputLines[HeaderIndices[k]]) IN
            Len(RealSections) >= k =>
                /\ RealSections[k].title = TitleAsStated(r)
                /\ RealSections[k].description = DescriptionAsStated(r)

(* C3 amended: as stated when the first colon is not the first character   *)
(* of the remainder (title and description without surrounding             *)
(* whitespace); when the remainder has no colon or begins with one, the    *)
(* title is the whole remainder and the description is empty.              *)
C3_TitleDescription ==
    pc = "parsed" =>
        \A k \in 1..Len(HeaderIndices) :
            LET r == Remainder(InputLines[HeaderIndices[k]]) IN
            Len(RealSections) >= k =>
                IF Includes(r, ":") /\ r[1] # ":"
                THEN /\ RealSections[k].title = TitleAsStated(r)
                     /\ RealSections[k].description = DescriptionAsStated(r)
                ELSE /\ RealSections[k].title = r
                     /\ RealSections[k].description = <<>>

\* headers with a colon inside, with a leading colon and with no colon were parsed
C3_Witness ==
    /\ pc = "parsed"
    /\ Len(RealSections) = 3
    /\ \E k \in 1..3 : RealSections[k].title = <<"a">>
                        /\ RealSections[k].description = <<"b", ":", "c">>
    /\ \E k \in 1..3 : RealSections[k].title = <<":", "a">>
                        /\ RealSections[k].description = <<>>
    /\ \E k \in 1..3 : RealSections[k].title = <<"a">>
                        /\ RealSections[k].description = <<>>

AsStatedIndices == AsStatedIndicesOf(InputLines)

(* C4: a line starts a section iff it is <ws>* <one digit> "." <ws> and a  *)
(* non-empty remainder; any other line (two digits, no whitespace after    *)
(* the period) is kept as content of the current section.                  *)
C4_HeaderIffAsStated ==
    pc = "parsed" =>
        /\ Len(RealSections) = Len(AsStatedIndices)
        /\ \A i \in 1..Len(InputLines) :
               LET before == Len(AsStatedIndicesOf(SubSeq(InputLines, 1, i))) IN
               (~IsHeaderLineAsStated(InputLines[i]) /\ before >= 1 /\ before <= Len(RealSections))
                   => \E j \in 1..Len(RealSections[before].lines) :
                          RealSections[before].lines[j] = InputLines[i]

-----------------------------------------------------------------------------
(* SpecGoals: renderGoalsSection and renderKeyActionsSection on a section. *)

GoalsAlphabet == {" ", ".", ",", "*", "a"}

\* lines that exercise the filter and the 3-item cap together
GoalLines == {
    <<>>,
    <<"a">>,
    <<" ", "b", " ">>,
    <<"c", ".", "d">>,
    <<"e", "*", "*", "&">>,
    <<"\"", "a", "\"">>,
    <<"*", " ", "a">>,
    <<"-", " ", "f">> }

GoalsSections ==
    LET heads == {[number |-> "3", title |-> <<"Goals">>],
                  [number |-> "4", title |-> <<"Key Actions">>]}
        bodies == SeqsUpTo(GoalLines, MaxGoalLines)
        sentences == {<<l>> : l \in SeqsUpTo(GoalsAlphabet, MaxSentenceLen)}
                    \cup {<<l, <<"b", ".", " ", "c">> >> : l \in SeqsUpTo(GoalsAlphabet, MaxSentenceLen)}
    IN  {[number |-> h.number, title |-> h.title, description |-> <<>>,
          lines |-> b, isOrphaned |-> FALSE] : h \in heads, b \in bodies}
        \cup {[number |-> "3", title |-> <<"Goals">>, description |-> <<>>,
               lines |-> b, isOrphaned |-> FALSE] : b \in sentences}

InitGoals ==
    /\ pc = "render"
    /\ section \in GoalsSections
    /\ ret = Idle
    /\ planText = Idle /\ patientName = Idle /\ therapistName = Idle
    /\ sections = Idle /\ qrCodeHtml = Idle /\ qrCodeDataUrl = Idle /\ browser = Idle /\ res = Idle /\ text = Idle

\* ret = renderGoalsSection(section)
RenderGoals ==
    /\ pc = "render"
    /\ ret' = renderGoalsSection(section)
    /\ pc' = "goals"
    /\ UNCHANGED <<browser, res, planText, patientName, therapistName, sections, qrCodeHtml, qrCodeDataUrl, section, text>>

\* ret = renderKeyActionsSection(section)
RenderKeyActions ==
    /\ pc = "render"
    /\ ret' = renderKeyActionsSection(section)
    /\ pc' = "keyActions"
    /\ UNCHANGED <<browser, res, planText, patientName, therapistName, sections, qrCodeHtml, qrCodeDataUrl, section, text>>

NextGoals == RenderGoals \/ RenderKeyActions

SpecGoals == InitGoals /\ [][NextGoals]_vars

\* ---- the claims' vocabulary ---------------------------------------------

\* positions of the token c in s, ascending
PositionsOf(s, c) == SelectSeq([i \in 1..Len(s) |-> i], LAMBDA i : s[i] = c)

\* the contents of the <li> elements of an HTML fragment, in order
ListItems(h) ==
    LET open == PositionsOf(h, "<li>")
        close == PositionsOf(h, "</li>")
    IN  [k \in 1..Len(open) |-> SubSeq(h, open[k] + 1, close[k] - 1)]

\* s without the leading and trailing characters that belong to S
StripSet(s, S) ==
    IF \A i \in 1..Len(s) : s[i] \in S THEN <<>>
    ELSE LET a == CHOOSE i \in 1..Len(s) : s[i] \notin S /\ \A j \in 1..(i - 1) : s[j] \in S
             b == CHOOSE i \in 1..Len(s) : s[i] \notin S /\ \A j \in (i + 1)..Len(s) : s[j] \in S
         IN  SubSeq(s, a, b)

\* candidate lines: the non-blank lines, without surrounding whitespace, that start
\* neither with a quotation mark nor with an asterisk
IsCandidate(l) == ~IsBlank(l) /\ StripSet(l, Whitespace)[1] \notin {"\"", "*"}
CandidateLines(lines) ==
    LET kept == SelectSeq(lines, IsCandidate) IN
    [i \in 1..Len(kept) |-> StripSet(kept[i], Whitespace)]

\* the pieces of s between its periods, in order
PeriodPieces(s) ==
    LET dots == PositionsOf(s, ".")
        from(k) == IF k = 1 THEN 1 ELSE dots[k - 1] + 1
        to(k) == IF k = Len(dots) + 1 THEN Len(s) ELSE dots[k] - 1
    IN  [k \in 1..(Len(dots) + 1) |-> SubSeq(s, from(k), to(k))]

\* a piece that becomes an item: no asterisk, something left after trimming
IsUsable(piece) == ~Includes(piece, "*") /\ StripSet(piece, Whitespace \cup {","}) # <<>>

\* the items of the sentence-level recovery for the candidate lines cands
RECURSIVE JoinWithSpaces(_)
JoinWithSpaces(ls) ==
    IF ls = <<>> THEN <<>>
    ELSE IF Len(ls) = 1 THEN ls[1]
    ELSE ls[1] \o <<" ">> \o JoinWithSpaces(Tail(ls))

SentenceItems(cands) ==
    LET usable == SelectSeq(PeriodPieces(JoinWithSpaces(cands)), IsUsable) IN
    [i \in 1..Len(usable) |-> StripSet(usable[i], Whitespace \cup {","})]

Rendered == pc \in {"goals", "keyActions"}

(* C6: with 3 or more candidate lines the list has exactly 3 items, the    *)
(* first 3 candidate lines in input order; later candidates are absent.    *)
C6_FirstThreeLines ==
    (Rendered /\ Len(CandidateLines(section.lines)) >= 3) =>
        LET cands == CandidateLines(section.lines) IN
        /\ Len(PositionsOf(ret, "<li>")) = 3
        /\ ListItems(ret) = <<escapeHtml(cands[1]), escapeHtml(cands[2]), escapeHtml(cands[3])>>

\* four candidate lines among skipped ones: the fourth is not rendered
C6_Witness ==
    /\ pc = "keyActions"
    /\ Len(section.lines) = 4
    /\ Len(CandidateLines(section.lines)) = 4
    /\ CandidateLines(section.lines)[4] = <<"-", " ", "f">>
    /\ ~Includes(ret, "f")
    /\ Len(ListItems(ret)) = 3

-----------------------------------------------------------------------------
(* SpecTreatment: renderTreatmentPlanSection on a section.                 *)

HeaderAlphabet == {"*", "(", ")", " ", "a", GettingYouComfortable}

TreatmentLines == {
    <<"*", "*", GettingYouComfortable, "*", "*", " ", "(", "a", ",", "b", ")", ":">>,
    <<KeepingYouAtYourBest, ":">>,
    <<"*", "*", KeepingYouAtYourBest, "*", "*", ":", " ", "x", " ", "(", "d", ")">>,
    <<"a">>,
    <<" ", "b", "&", " ">>,
    <<>>,
    <<"*", "*", "c", "*", "*">>,
    <<"Recommended", ":", " ", "2", "x">>,
    <<"recommended", ":">> }

\* the two-phase example of the specification
TreatmentScenario == <<
    <<"*", "*", GettingYouComfortable, "*", "*", " ", "(", "Acute Phase", ",", " ", "2-4 weeks", ")", ":">>,
    <<"a", " ", "b">>,
    <<"Recommended", ":", " ", "2x/week">>,
    <<"*", "*", KeepingYouAtYourBest, "*", "*", " ", "(", "Maintenance", ",", " ", "Ongoing", ")", ":">>,
    <<"c">>,
    <<"Recommended", ":", " ", "1x/month">> >>

\* the text after the colon of a header "5) Treatment Plan: z&", which parsePlanText
\* makes the section's first line (420-423)
InlineDescription == <<"z", "&">>

TreatmentSections ==
    LET bodies == SeqsUpTo(TreatmentLines, MaxPhaseLines)
                    \cup {<<l, <<"a">> >> : l \in {h \in SeqsUpTo(HeaderAlphabet, MaxHeaderLen) :
                                                     Includes(h, GettingYouComfortable)}}
                    \cup {TreatmentScenario}
    IN  {[number |-> "5", title |-> <<"Treatment Plan">>, description |-> <<>>,
          lines |-> b, isOrphaned |-> FALSE] : b \in bodies}
        \cup {[number |-> "5", title |-> <<"Treatment Plan">>, description |-> InlineDescription,
               lines |-> <<InlineDescription>> \o b, isOrphaned |-> FALSE] :
                   b \in SeqsUpTo(TreatmentLines, MaxPhaseLines - 1)}

InitTreatment ==
    /\ pc = "render"
    /\ section \in TreatmentSections
    /\ ret = Idle
    /\ planText = Idle /\ patientName = Idle /\ therapistName = Idle
    /\ sections = Idle /\ qrCodeHtml = Idle /\ qrCodeDataUrl = Idle /\ browser = Idle /\ res = Idle /\ text = Idle

\* ret = renderTreatmentPlanSection(section)
RenderTreatmentPlan ==
    /\ pc = "render"
    /\ ret' = renderTreatmentPlanSection(section)
    /\ pc' = "treatmentPlan"
    /\ UNCHANGED <<browser, res, planText, patientName, therapistName, sections, qrCodeHtml, qrCodeDataUrl, section, text>>

NextTreatment == RenderTreatmentPlan

SpecTreatment == InitTreatment /\ [][NextTreatment]_vars

\* ---- the claims' vocabulary ---------------------------------------------

ContainsPhaseName(l) ==
    \E i \in 1..Len(l) : l[i] \in {"Getting You Comfortable", "Keeping You at Your Best"}

PhaseHeaderIndices(lines) ==
    SelectSeq([i \in 1..Len(lines) |-> i], LAMBDA i : ContainsPhaseName(lines[i]))

\* a Recommended line: "Recommended:" (any case) at its start, followed by text
IsRecommendedLine(l) ==
    LET t == StripSet(l, Whitespace) IN
    Len(t) >= 3 /\ Lower(t[1]) = "recommended" /\ t[2] = ":"

RecommendedText(l) ==
    LET t == StripSet(l, Whitespace) IN StripSet(SubSeq(t, 3, Len(t)), Whitespace)

IsContentLine(l) ==
    LET t == StripSet(l, Whitespace) IN
    /\ ~IsBlank(l)
    /\ ~(Len(t) >= 2 /\ t[1] = "*" /\ t[2] = "*")
    /\ ~IsRecommendedLine(l)

\* the fields C8 gives the k-th phase of the lines
ExpectedPhase(lines, k) ==
    LET H == PhaseHeaderIndices(lines)
        header == StripSet(lines[H[k]], Whitespace)
        body == SubSeq(lines, H[k] + 1, IF k < Len(H) THEN H[k + 1] - 1 ELSE Len(lines))
        contentLines == SelectSeq(body, IsContentLine)
        recLines == SelectSeq(body, IsRecommendedLine)
        captured == PhaseHeaderMatch(header)
    IN  [title |-> IF captured # NoMatch THEN StripSet(captured[1].title, Whitespace)
                   ELSE StripSet(SelectSeq(header, LAMBDA c : c # "*"), Whitespace),
         subtitle |-> IF captured # NoMatch THEN StripSet(captured[1].subtitle, Whitespace)
                      ELSE <<>>,
         content |-> JoinWithSpaces([i \in 1..Len(contentLines) |->
                                        StripSet(contentLines[i], Whitespace)]),
         recommended |-> IF recLines = <<>> THEN <<>>
                         ELSE RecommendedText(recLines[Len(recLines)])]

CardOpen == "<div class=treatment-phase-card>"

\* the k-th card of an HTML fragment: from its opening tag to the next card or the end
Card(h, k) ==
    LET at == PositionsOf(h, CardOpen) IN
    SubSeq(h, at[k], IF k < Len(at) THEN at[k + 1] - 1 ELSE Len(h))

\* the tokens of h between the first open tag and the first close tag after it
Between(h, open, close) ==
    LET i == CHOOSE j \in 1..Len(h) : h[j] = open /\ \A m \in 1..(j - 1) : h[m] # open
        e == CHOOSE j \in (i + 1)..Len(h) : h[j] = close /\ \A m \in (i + 1)..(j - 1) : h[m] # close
    IN  SubSeq(h, i + 1, e - 1)

\* the card c shows exactly the fields of the phase ph
CardShows(c, ph) ==
    /\ Between(c, "<span class=treatment-phase-title>", "</span>") = escapeHtml(ph.title)
    /\ IF ph.subtitle # <<>>
       THEN Between(c, "<span class=treatment-phase-subtitle>", "</span>")
                = <<"(">> \o escapeHtml(ph.subtitle) \o <<")">>
       ELSE ~Includes(c, "<span class=treatment-phase-subtitle>")
    /\ Between(c, "<p>", "</p>") = escapeHtml(ph.content)
    /\ IF ph.recommended # <<>>
       THEN Between(c, "<div class=treatment-phase-recommended>", "</div>")
                = <<"<strong>Recommended:</strong>", " ">> \o escapeHtml(ph.recommended)
       ELSE ~Includes(c, "<div class=treatment-phase-recommended>")

(* C8: one phase card per line containing a phase name, in line order, for *)
(* zero, one, two or more such lines; the card shows the captured title    *)
(* and subtitle (or the header without asterisks and no subtitle), the     *)
(* single-space join of the content lines up to the next header, and the   *)
(* text following "Recommended:" on the phase's (last) Recommended line.   *)
C8_PhaseCards ==
    pc = "treatmentPlan" =>
        LET H == PhaseHeaderIndices(section.lines) IN
        /\ Len(PositionsOf(ret, CardOpen)) = Len(H)
        /\ \A k \in 1..Len(H) : CardShows(Card(ret, k), ExpectedPhase(section.lines, k))
        /\ section.lines = TreatmentScenario =>
               /\ ExpectedPhase(section.lines, 1)
                    = [title |-> <<"Getting You Comfortable">>,
                       subtitle |-> <<"Acute Phase", ",", " ", "2-4 weeks">>,
                       content |-> <<"a", " ", "b">>, recommended |-> <<"2x/week">>]
               /\ ExpectedPhase(section.lines, 2)
                    = [title |-> <<"Keeping You at Your Best">>,
                       subtitle |-> <<"Maintenance", ",", " ", "Ongoing">>,
                       content |-> <<"c">>, recommended |-> <<"1x/month">>]

\* the two-phase example was rendered as two cards
C8_Witness ==
    /\ pc = "treatmentPlan"
    /\ section.lines = TreatmentScenario
    /\ Len(PositionsOf(ret, CardOpen)) = 2
    /\ Between(Card(ret, 2), "<span class=treatment-phase-subtitle>", "</span>")
         = <<"(", "Maintenance", ",", " ", "Ongoing", ")">>

-----------------------------------------------------------------------------
(* Spec: a call of renderStructuredHtml.  It parses, awaits the QR image   *)
(* when the therapist has a booking URL, and assembles the page.           *)

DocLines == {
    <<>>,
    <<"Here", " ", "is", " ", "your", " ", "plan", ":">>,
    <<"1", ")", " ", "a", "<">>,
    <<"-", " ", "c", "&">>,
    <<"*", "*", "Getting You Comfortable", "*", "*", " ", "(", "d", ")", ":">>,
    <<"Recommended", ":", " ", "e">>,
    <<"1", ".", " ", "T", "&", "<", ":", " ", "x">>,
    <<"3", ".", " ", "Goals">>,
    <<"3", ".", " ", "a">>,
    <<"4", ".", " ", "Key Actions", ":", " ", "f", ".", " ", "g">>,
    <<"5", ".", " ", "Treatment Plan">> }

\* a plan in the shape the prompt asks for, with a note before the first header
FullPlan == <<
    <<"Here", " ", "is", " ", "your", " ", "plan", ":">>,
    <<"n", ">">>,
    <<"1", ".", " ", "Your Starting Point", ":", " ", "a", "*", "*">>,
    <<"3", ".", " ", "Goals", ":">>,
    <<"g", "1">>,
    <<"g", "2">>,
    <<"g", "3">>,
    <<"4", ".", " ", "Key Actions", ":">>,
    <<"k", "1", ".", " ", "k", "2", ".">>,
    <<"5", ".", " ", "Treatment Plan", ":">>,
    <<"*", "*", "Getting You Comfortable", "*", "*", " ", "(", "d", ")", ":">>,
    <<"p">>,
    <<"Recommended", ":", " ", "e">>,
    <<"8", ".", " ", "Goals">>,
    <<"-", " ", "h">> >>

DocTexts == {Join(ls, NL) : ls \in SeqsUpTo(DocLines, MaxDocLines)} \cup {Join(FullPlan, NL)}

PatientNames == {<<>>, <<"P">>, <<"<", "P", "&", "*", "*">>}
TherapistNames == {<<>>, <<"Elle Badrak">>, <<"Amanda O'Dempsey">>, <<"N", "<">>,
                   <<"constructor">>}

Init ==
    /\ pc = "start"
    /\ \/ /\ planText \in DocTexts
          /\ patientName = <<"P">>
          /\ therapistName = <<"Elle Badrak">>
       \/ /\ planText \in {Join(FullPlan, NL), <<"a", "<", "\n", "b">>, <<>>}
          /\ patientName \in PatientNames
          /\ therapistName \in TherapistNames
    /\ sections = Idle /\ qrCodeHtml = Idle /\ qrCodeDataUrl = Idle /\ browser = Idle /\ res = Idle
    /\ section = Idle /\ text = Idle /\ ret = Idle

\* 666-672: parse; the therapist has no booking URL, nothing is awaited
BeginNoQr ==
    /\ pc = "start"
    /\ ~HasBookingUrl(therapistName)
    /\ sections' = parsePlanText(planText)
    /\ qrCodeHtml' = <<>>
    /\ pc' = "assemble"
    /\ UNCHANGED <<browser, res, planText, patientName, therapistName, qrCodeDataUrl, section, text, ret>>

\* 666-673: parse; await generateQRCodeDataURL(bookingUrl)
BeginAwaitQr ==
    /\ pc = "start"
    /\ HasBookingUrl(therapistName)
    /\ sections' = parsePlanText(planText)
    /\ qrCodeHtml' = <<>>
    /\ pc' = "awaitQr"
    /\ UNCHANGED <<browser, res, planText, patientName, therapistName, qrCodeDataUrl, section, text, ret>>

\* the await of 673 never settles with an error: generateQRCodeDataURL without its catch
QrFailed_rejects ==
    /\ pc = "awaitQr"
    /\ pc' = "rejected"
    /\ UNCHANGED <<browser, res, planText, patientName, therapistName, sections, qrCodeHtml, qrCodeDataUrl, section, text, ret>>

\* 276-285, 673-685: the data URL arrives; QRCode.toDataURL encodes a string only
QrResolved ==
    /\ pc = "awaitQr"
    /\ therapistName[1] \in DOMAIN THERAPIST_BOOKING_URLS
    /\ qrCodeDataUrl' = <<"data:image/png;base64">>
    /\ qrCodeHtml' = QrCodeHtmlOf(therapistName, qrCodeDataUrl')
    /\ pc' = "assemble"
    /\ UNCHANGED <<browser, res, planText, patientName, therapistName, sections, section, text, ret>>

\* 286-289, 673-674: generateQRCodeDataURL caught an error and returned null
QrFailed ==
    /\ pc = "awaitQr"
    /\ qrCodeDataUrl' = <<>>
    /\ qrCodeHtml' = QrCodeHtmlOf(therapistName, qrCodeDataUrl')
    /\ pc' = "assemble"
    /\ UNCHANGED <<browser, res, planText, patientName, therapistName, sections, section, text, ret>>

\* 688-921: render the sections and return the page
Assemble ==
    /\ pc = "assemble"
    /\ ret' = Document(planText, patientName, therapistName, qrCodeHtml, SectionHtml(sections))
    /\ pc' = "done"
    /\ UNCHANGED <<browser, res, planText, patientName, therapistName, sections, qrCodeHtml, qrCodeDataUrl, section, text>>

Next == BeginNoQr \/ BeginAwaitQr \/ QrResolved \/ QrFailed \/ Assemble

Spec == Init /\ [][Next]_vars

\* ---- the claims' vocabulary ---------------------------------------------

\* the main region of the returned page
MainRegion == Between(ret, "<main>", "</main>")

\* the renderer the dispatch table of C5 names for a section
RendererByTable(sec) ==
    CASE sec.isOrphaned -> "Orphaned"
      [] ~sec.isOrphaned /\ sec.number = "5" /\ Includes(sec.title, "Treatment Plan") -> "Treatment Plan"
      [] ~sec.isOrphaned /\ sec.number = "3" /\ Includes(sec.title, "Goals") -> "Goals"
      [] ~sec.isOrphaned /\ sec.number = "4" /\ Includes(sec.title, "Key Actions") -> "Key Actions"
      [] OTHER -> "Generic"

BlockByTable(sec) ==
    CASE RendererByTable(sec) = "Orphaned" -> renderOrphanedSection(sec)
      [] RendererByTable(sec) = "Treatment Plan" -> renderTreatmentPlanSection(sec)
      [] RendererByTable(sec) = "Goals" -> renderGoalsSection(sec)
      [] RendererByTable(sec) = "Key Actions" -> renderKeyActionsSection(sec)
      [] RendererByTable(sec) = "Generic" -> renderGenericSection(sec)

\* the blocks of the main region: the pieces between the newlines that join them
RECURSIVE JoinWithNewlines(_)
JoinWithNewlines(blocks) ==
    IF blocks = <<>> THEN <<>>
    ELSE IF Len(blocks) = 1 THEN blocks[1]
    ELSE blocks[1] \o <<"\n">> \o JoinWithNewlines(Tail(blocks))

(* C5: the main region holds one block per Section, in Section order, each *)
(* produced by the renderer of the dispatch table: Orphaned; 5 and         *)
(* "Treatment Plan"; 3 and "Goals"; 4 and "Key Actions"; else Generic.     *)
C5_OneBlockPerSection ==
    (pc = "done" /\ sections # <<>>) =>
        /\ Len(PositionsOf(MainRegion, "</section>")) = Len(sections)
        /\ MainRegion = JoinWithNewlines([k \in 1..Len(sections) |-> BlockByTable(sections[k])])

\* a page whose sections use all five renderers
C5_Witness ==
    /\ pc = "done"
    /\ {RendererByTable(sections[k]) : k \in 1..Len(sections)}
         = {"Orphaned", "Treatment Plan", "Goals", "Key Actions", "Generic"}
    /\ Len(PositionsOf(MainRegion, "</section>")) = 6

\* the three entities with their "&" escaped once more
DoubleEscaped == {<<"&", "a", "m", "p", ";", "a", "m", "p", ";">>,
                  <<"&", "a", "m", "p", ";", "l", "t", ";">>,
                  <<"&", "a", "m", "p", ";", "g", "t", ";">>}

HasSubSeq(s, t) == \E i \in 1..(Len(s) - Len(t) + 1) : SubSeq(s, i, i + Len(t) - 1) = t

(* C9: every user-supplied string in the returned page went through        *)
(* escapeHtml exactly once: no character "<" or ">" and no "**" of the     *)
(* input is left (never zero times), every "&" starts an entity, and no    *)
(* entity is escaped again (never twice).  The inputs hold no entity.      *)
C9_EscapedExactlyOnce ==
    pc = "done" =>
        /\ ~Includes(ret, "<") /\ ~Includes(ret, ">")
        /\ ~HasBold(ret)
        /\ AllAmpsAreEntities(ret)
        /\ \A d \in DoubleEscaped : ~HasSubSeq(ret, d)


\* the fallback block as C11 states it: every line of the raw input escaped,
\* the lines separated by line breaks, in one paragraph
FallbackAsStated ==
    LET ls == Split(planText, "\n") IN
    <<"<div class=section>", "<p>">>
        \o Join([i \in 1..Len(ls) |-> escapeHtml(ls[i])], <<"<br/>">>)
        \o <<"</p>", "</div>">>

(* C11: for a plan text without a header line, parsePlanText returns one   *)
(* orphaned section when some line is non-blank and not an intro phrase    *)
(* and no section otherwise; the page shows the fallback block (the whole  *)
(* raw input escaped in one paragraph, a line break for each newline)      *)
(* exactly when parsePlanText returned no section.                         *)
C11_HeaderlessAndFallback ==
    pc = "done" =>
        /\ HeaderIndices = <<>> =>
               IF \E i \in 1..Len(InputLines) : NotBlankNotIntro(InputLines[i])
               THEN Len(sections) = 1 /\ sections[1].isOrphaned
               ELSE sections = <<>>
        /\ (MainRegion = FallbackAsStated) <=> (sections = <<>>)
        /\ sections # <<>> => ~Includes(MainRegion, "<div class=section>")

\* an intro phrase and blank lines only: no section, the fallback with its line breaks
C11_Witness ==
    /\ pc = "done"
    /\ sections = <<>>
    /\ Len(InputLines) = 3
    /\ \E i \in 1..3 : isIntroPhrase(InputLines[i])
    /\ Len(PositionsOf(MainRegion, "<br/>")) = 2
    /\ Includes(MainRegion, "Here")

\* a text without a header whose note became the one orphaned section
C11_WitnessOrphaned ==
    /\ pc = "done"
    /\ HeaderIndices = <<>>
    /\ Len(sections) = 1 /\ sections[1].isOrphaned


\* the lines of a text without a header that the orphaned section keeps
KeptLines == SelectSeq(InputLines, NotBlankNotIntro)

\* the main region is one "Additional Notes" block
IsAdditionalNotesBlock(region) ==
    /\ Len(region) >= 5
    /\ SubSeq(region, 1, 4) = <<"<section class=section orphaned-section>", "<h2>",
                                "Additional Notes", "</h2>">>
    /\ region[Len(region)] = "</section>"
    /\ Len(PositionsOf(region, "</section>")) = 1

(* C12 as stated: a plan text with unrecognized numbering or no header     *)
(* degrades to the single-paragraph fallback.                               *)
C12_AlwaysFallback ==
    (pc = "done" /\ HeaderIndices = <<>>) => MainRegion = FallbackAsStated

(* C12 amended: a plan text with unrecognized numbering or no header       *)
(* degrades to the one "Additional Notes" block holding its non-blank,     *)
(* non-intro lines when there is such a line, and to the single-paragraph  *)
(* fallback only when every line is blank or an intro phrase; the call     *)
(* returns the page either way.                                            *)
C12_HeaderlessDegrades ==
    (pc = "done" /\ HeaderIndices = <<>>) =>
        /\ sections = IF KeptLines = <<>> THEN <<>> ELSE <<OrphanedSection(KeptLines)>>
        /\ IF KeptLines = <<>> THEN MainRegion = FallbackAsStated
           ELSE /\ IsAdditionalNotesBlock(MainRegion)
                /\ MainRegion # FallbackAsStated
        /\ ret[1] = "<!doctype html>" /\ ret[Len(ret)] = "</html>"

\* a text numbered "1)" only: its line is shown in the Additional Notes block
C12_Witness ==
    /\ pc = "done"
    /\ planText = <<"1", ")", " ", "a", "<">>
    /\ IsAdditionalNotesBlock(MainRegion)
    /\ HasSubSeq(MainRegion, <<"<p>", "1", ")", " ", "a">> \o LT \o <<"</p>">>)


\* the positions of a call that has not thrown
Positions == {"start", "awaitQr", "assemble", "done"}

\* a complete page
IsDocument(d) ==
    /\ Len(d) >= 2 /\ d[1] = "<!doctype html>" /\ d[Len(d)] = "</html>"
    /\ Len(PositionsOf(d, "<main>")) = 1 /\ Len(PositionsOf(d, "</main>")) = 1
    /\ Len(PositionsOf(d, "<footer>")) = 1

(* C13: for every plan text, empty, header-less and malformed included,    *)
(* and every combination of present or absent patient and therapist name,  *)
(* the call never leaves its course by throwing, and what it returns is a  *)
(* complete page, also when the QR image could not be generated.           *)
C13_AlwaysReturnsDocument ==
    /\ pc \in Positions
    /\ pc = "done" => IsDocument(ret)

\* an empty plan text, no patient name, a mapped therapist whose QR image failed
C13_Witness ==
    /\ pc = "done"
    /\ planText = <<>> /\ patientName = <<>>
    /\ therapistName = <<"Elle Badrak">> /\ qrCodeHtml = <<>>
    /\ IsDocument(ret)


\* the booking block of the header, empty when there is none
BookingBlock ==
    IF Includes(ret, "<div class=qr-code-container>")
    THEN SubSeq(ret, IndexOf(ret, "<div class=qr-code-container>"), IndexOf(ret, "</header>") - 1)
    ELSE <<>>

\* the page without its booking block
WithoutBookingBlock ==
    IF BookingBlock = <<>> THEN ret
    ELSE SubSeq(ret, 1, IndexOf(ret, "<div class=qr-code-container>") - 1)
             \o SubSeq(ret, IndexOf(ret, "</header>"), Len(ret))

\* the therapist name is one of the names the lookup table lists
IsTableKey == Len(therapistName) = 1 /\ therapistName[1] \in DOMAIN THERAPIST_BOOKING_URLS

(* C14: the header holds the booking block, a link to the mapped URL and   *)
(* the QR image, iff the therapist name is a key of the lookup table and   *)
(* the QR image was generated; otherwise there is no block, and all the    *)
(* rest of the page is what it is with the block.                          *)
C14_BookingBlock ==
    pc = "done" =>
        /\ (BookingBlock # <<>>) <=> (IsTableKey /\ qrCodeDataUrl \notin {Idle, <<>>})
        /\ BookingBlock # <<>> =>
               /\ HasSubSeq(BookingBlock, <<"<a href=", THERAPIST_BOOKING_URLS[therapistName[1]]>>)
               /\ HasSubSeq(BookingBlock, <<"<img src=", qrCodeDataUrl[1]>>)
               /\ IndexOf(ret, "<div class=qr-code-container>") < IndexOf(ret, "</header>")
               /\ IndexOf(ret, "<header>") < IndexOf(ret, "<div class=qr-code-container>")
        /\ WithoutBookingBlock
             = Document(planText, patientName, therapistName, <<>>, SectionHtml(sections))
        /\ IsDocument(ret)

\* a mapped therapist with the QR image: the block links to that therapist's URL
C14_Witness ==
    /\ pc = "done"
    /\ therapistName = <<"Amanda O'Dempsey">>
    /\ HasSubSeq(BookingBlock, <<"<a href=", "https://mygcphysio.bookings.pracsuite.com/?p=4819">>)
    /\ patientName # <<>>

\* a mapped therapist whose QR image failed, and a name found only on Object.prototype
C14_WitnessNoBlock ==
    /\ pc = "done"
    /\ BookingBlock = <<>>
    /\ qrCodeDataUrl = <<>>
    /\ therapistName = <<"constructor">>


(* C15: in every result of parsePlanText a section has number "0" iff it   *)
(* is the orphaned section, and every other section has a number in        *)
(* "1".."8".                                                               *)
C15_NumberZeroIffOrphaned ==
    pc = "parsed" =>
        \A k \in 1..Len(sections) :
            /\ (sections[k].number = "0") <=> sections[k].isOrphaned
            /\ ~sections[k].isOrphaned =>
                   sections[k].number \in {"1", "2", "3", "4", "5", "6", "7", "8"}


\* the whole trimmed line is one of the canned phrases: every pattern taken to its end
IsWholeCannedPhrase(l) ==
    \E p \in 1..Len(INTRO_PHRASE_PATTERNS) :
        MatchFrom([INTRO_PHRASE_PATTERNS[p] EXCEPT !.anchored = TRUE], 1, Trim(l), 1)

(* C16: a line is an intro phrase only when the whole trimmed line is one  *)
(* of the canned phrases, whatever its letter case; a pre-header line that *)
(* begins with a canned phrase and goes on with more content is not an     *)
(* intro phrase and is kept in the orphaned section.                       *)
C16_IntroPhraseIsWholeLine ==
    pc = "parsed" =>
        \A i \in 1..Len(PreHeaderLines) :
            LET l == PreHeaderLines[i] IN
            /\ isIntroPhrase(l) <=> IsWholeCannedPhrase(l)
            /\ (~IsBlank(l) /\ ~IsWholeCannedPhrase(l)) =>
                   /\ sections # <<>> /\ sections[1].isOrphaned
                   /\ \E j \in 1..Len(sections[1].lines) : sections[1].lines[j] = l

-----------------------------------------------------------------------------
(* SpecConcurrent: NumCalls invocations of renderStructuredHtml in one     *)
(* process.  Every variable of a call is indexed by the call.              *)

Calls == 1..NumCalls

ConcurrentTexts == { <<"n", "\n", "1", ".", " ", "T", ":", " ", "x", "\n", "-", " ", "y">>,
                     <<"a", "<", "\n", "b">>,
                     <<"3", ".", " ", "Goals", ":", " ", "g", ".", " ", "h", "&">> }
ConcurrentTherapists == {<<>>, <<"Elle Badrak">>, <<"Amanda O'Dempsey">>}

\* a slip the function could have: `sections` declared once for the module, so that a
\* call reads what the call that started last has parsed
OwnSections_moduleLevel(secs, started, c) ==
    IF \E d \in DOMAIN secs : d # c /\ started[d] # "start"
    THEN secs[CHOOSE d \in DOMAIN secs : d # c /\ started[d] # "start"]
    ELSE secs[c]

\* 666: `const sections` is a local of the call
OwnSections(secs, started, c) == secs[c]

InitConcurrent ==
    /\ pc = [c \in Calls |-> "start"]
    /\ planText \in [Calls -> ConcurrentTexts]
    /\ patientName = [c \in Calls |-> IF c = 1 THEN <<"P", "<">> ELSE <<>>]
    /\ therapistName \in [Calls -> ConcurrentTherapists]
    /\ sections = [c \in Calls |-> Idle]
    /\ qrCodeHtml = [c \in Calls |-> Idle]
    /\ qrCodeDataUrl = [c \in Calls |-> Idle] /\ browser = Idle /\ res = Idle
    /\ ret = [c \in Calls |-> Idle]
    /\ section = Idle /\ text = Idle

\* 666-672 in call c: parse; the therapist has no booking URL, nothing is awaited
CallBeginNoQr(c) ==
    /\ pc[c] = "start"
    /\ ~HasBookingUrl(therapistName[c])
    /\ sections' = [sections EXCEPT ![c] = parsePlanText(planText[c])]
    /\ qrCodeHtml' = [qrCodeHtml EXCEPT ![c] = <<>>]
    /\ pc' = [pc EXCEPT ![c] = "assemble"]
    /\ UNCHANGED <<browser, res, planText, patientName, therapistName, qrCodeDataUrl, section, text, ret>>

\* 666-673 in call c: parse; the call is suspended at the await
CallBeginAwaitQr(c) ==
    /\ pc[c] = "start"
    /\ HasBookingUrl(therapistName[c])
    /\ sections' = [sections EXCEPT ![c] = parsePlanText(planText[c])]
    /\ qrCodeHtml' = [qrCodeHtml EXCEPT ![c] = <<>>]
    /\ pc' = [pc EXCEPT ![c] = "awaitQr"]
    /\ UNCHANGED <<browser, res, planText, patientName, therapistName, qrCodeDataUrl, section, text, ret>>

\* 673-685 in call c: the await resumes with a data URL, or with null
CallQrSettled(c) ==
    /\ pc[c] = "awaitQr"
    /\ \E url \in {<<>>, <<"data:image/png;base64">>} :
          /\ qrCodeDataUrl' = [qrCodeDataUrl EXCEPT ![c] = url]
          /\ qrCodeHtml' = [qrCodeHtml EXCEPT ![c] = QrCodeHtmlOf(therapistName[c], url)]
    /\ pc' = [pc EXCEPT ![c] = "assemble"]
    /\ UNCHANGED <<browser, res, planText, patientName, therapistName, sections, section, text, ret>>

\* 688-921 in call c: render the sections and return the page
CallAssemble(c) ==
    /\ pc[c] = "assemble"
    /\ ret' = [ret EXCEPT ![c] =
                 Document(planText[c], patientName[c], therapistName[c], qrCodeHtml[c],
                          SectionHtml(OwnSections(sections, pc, c)))]
    /\ pc' = [pc EXCEPT ![c] = "done"]
    /\ UNCHANGED <<browser, res, planText, patientName, therapistName, sections, qrCodeHtml, qrCodeDataUrl,
                   section, text>>

\* the calls take the steps of Spec in any order; the program interleaves them at the
\* awaits only, which is among these orders
NextConcurrent ==
    \E c \in Calls :
        CallBeginNoQr(c) \/ CallBeginAwaitQr(c) \/ CallQrSettled(c) \/ CallAssemble(c)

SpecConcurrent == InitConcurrent /\ [][NextConcurrent]_vars

\* ---- the claims' vocabulary ---------------------------------------------

\* what a call returns when it runs alone on its inputs and is given url by its await
RunAlone(pt, patient, therapist, url) ==
    Document(pt, patient, therapist,
             IF HasBookingUrl(therapist) THEN QrCodeHtmlOf(therapist, url) ELSE <<>>,
             SectionHtml(parsePlanText(pt)))

\* what call c holds
CallState(c) == <<pc[c], planText[c], patientName[c], therapistName[c], sections[c],
                  qrCodeHtml[c], qrCodeDataUrl[c], ret[c]>>

(* C17: under every interleaving of the calls, each call returns the page  *)
(* it returns when run alone on its inputs; what a call holds is built     *)
(* from its own inputs only, and a step of one call leaves what the other  *)
(* calls hold as it was.                                                   *)
C17_CallsAreIsolated ==
    /\ [](\A c \in Calls :
            /\ pc[c] = "done" =>
                   ret[c] = RunAlone(planText[c], patientName[c], therapistName[c],
                                     qrCodeDataUrl[c])
            /\ pc[c] # "start" => sections[c] = parsePlanText(planText[c]))
    /\ [][\A c \in Calls : pc'[c] # pc[c] =>
              \A d \in Calls \ {c} : CallState(d)' = CallState(d)]_vars

\* two calls on different texts have returned, the first with a booking block
C17_Witness ==
    /\ pc = [c \in Calls |-> "done"]
    /\ planText[1] # planText[2]
    /\ qrCodeHtml[1] # <<>> /\ therapistName[2] = <<>>
    /\ Len(sections[1]) # Len(sections[2])


\* the input lines after header k, up to the next header or the end of the input
LinesAfterHeader(k) ==
    SubSeq(InputLines, HeaderIndices[k] + 1,
           IF k < Len(HeaderIndices) THEN HeaderIndices[k + 1] - 1 ELSE Len(InputLines))

(* C18: the lines of a non-orphaned section are the header's description,  *)
(* if it is not empty, and then every line between the header and the     *)
(* next header or the end of the input, in source order, each without its  *)
(* trailing whitespace only; blank lines and intro phrases are kept.       *)
C18_SectionLines ==
    pc = "parsed" =>
        \A k \in 1..Len(HeaderIndices) :
            Len(RealSections) >= k =>
                RealSections[k].lines =
                    (IF RealSections[k].description # <<>>
                     THEN <<RealSections[k].description>> ELSE <<>>)
                    \o LinesAfterHeader(k)

\* a section with a description, then a blank line and an intro phrase, both kept
C18_Witness ==
    /\ pc = "parsed"
    /\ Len(RealSections) = 1
    /\ RealSections[1].description # <<>>
    /\ Len(RealSections[1].lines) = 3
    /\ RealSections[1].lines[2] = <<>>
    /\ isIntroPhrase(RealSections[1].lines[3])

-----------------------------------------------------------------------------
(* SpecList: the generic and the orphaned branch of the sections.map       *)
(* callback on a section.                                                  *)

\* lines as parsePlanText leaves them: without trailing whitespace
ListLines == {
    <<>>,
    <<"-">>,
    <<" ", "a", "<">>,
    <<"*", "*", "b", "*", "*">>,
    <<"-", " ", "c", "&">>,
    <<" ", "*", " ", " ", "d">>,
    <<"U+2022", " ", "e">>,
    <<"-", "f">> }

ListSections ==
    { [number |-> "2", title |-> <<"T", "<">>, description |-> <<>>, lines |-> ls,
       isOrphaned |-> FALSE] : ls \in SeqsUpTo(ListLines, MaxListLines) }
    \cup { OrphanedSection(ls) : ls \in SeqsUpTo(ListLines \ {<<>>}, MaxListLines) \ {<<>>} }

InitList ==
    /\ pc = "list"
    /\ section \in ListSections
    /\ ret = Idle
    /\ planText = Idle /\ patientName = Idle /\ therapistName = Idle
    /\ sections = Idle /\ qrCodeHtml = Idle /\ qrCodeDataUrl = Idle /\ browser = Idle /\ res = Idle /\ text = Idle

\* 695-717
RenderOrphaned ==
    /\ pc = "list"
    /\ section.isOrphaned
    /\ ret' = renderOrphanedSection(section)
    /\ pc' = "orphaned"
    /\ UNCHANGED <<browser, res, planText, patientName, therapistName, sections, qrCodeHtml, qrCodeDataUrl,
                   section, text>>

\* 734-754
RenderGeneric ==
    /\ pc = "list"
    /\ ~section.isOrphaned
    /\ ret' = renderGenericSection(section)
    /\ pc' = "generic"
    /\ UNCHANGED <<browser, res, planText, patientName, therapistName, sections, qrCodeHtml, qrCodeDataUrl,
                   section, text>>

NextList == RenderOrphaned \/ RenderGeneric

SpecList == InitList /\ [][NextList]_vars

\* ---- the claims' vocabulary ---------------------------------------------

\* a bullet line: optional whitespace, a marker, whitespace
IsBulletLine(l) ==
    \E p \in 1..Len(l) :
        /\ \A j \in 1..(p - 1) : l[j] \in Whitespace
        /\ l[p] \in {"-", "*", "U+2022"}
        /\ p + 1 <= Len(l) /\ l[p + 1] \in Whitespace

\* a bullet line without its marker and the whitespace around the marker
WithoutMarker(l) ==
    LET p == CHOOSE q \in 1..Len(l) : l[q] \notin Whitespace
        rest == SubSeq(l, p + 1, Len(l))
    IN  TrimStart(rest)

\* the number of bullet lines at the start of ls
RECURSIVE BulletRun(_)
BulletRun(ls) ==
    IF ls # <<>> /\ IsBulletLine(Head(ls)) THEN 1 + BulletRun(Tail(ls)) ELSE 0

\* the fragments of the non-blank lines ls, as C19 states them
RECURSIVE FragmentsAsStated(_)
FragmentsAsStated(ls) ==
    IF ls = <<>> THEN <<>>
    ELSE IF IsBulletLine(Head(ls))
    THEN LET n == BulletRun(ls) IN
         << <<"<ul>">>
            \o Concat([i \in 1..n |-> <<"<li>">> \o escapeHtml(WithoutMarker(ls[i])) \o <<"</li>">>])
            \o <<"</ul>">> >>
         \o FragmentsAsStated(SubSeq(ls, n + 1, Len(ls)))
    ELSE << <<"<p>">> \o escapeHtml(Head(ls)) \o <<"</p>">> >> \o FragmentsAsStated(Tail(ls))

NotBlank(l) == ~IsBlank(l)

\* the block without its opening tag and its heading
BlockBody(block) == SubSeq(block, IndexOf(block, "</h2>") + 1, Len(block))

(* C19: the fragments of a generic or orphaned block are, in source order, *)
(* a paragraph for each non-blank line that is not a bullet line and one   *)
(* list for each run of bullet lines, an item for each with its marker     *)
(* stripped; blank lines give nothing; the orphaned block differs from the *)
(* generic one in its heading without number and in its class only.        *)
C19_ParagraphsAndLists ==
    pc \in {"generic", "orphaned"} =>
        LET frags == FragmentsAsStated(SelectSeq(section.lines, NotBlank)) IN
        /\ BlockBody(ret) = JoinWithNewlines(frags) \o <<"</section>">>
        /\ Len(PositionsOf(ret, "<p>")) + Len(PositionsOf(ret, "<li>"))
             = Len(SelectSeq(section.lines, NotBlank))
        /\ pc = "generic" =>
               SubSeq(ret, 1, IndexOf(ret, "</h2>"))
                 = <<"<section class=section>", "<h2>", "<span class=num>", section.number,
                     ".", "</span>", " ">> \o escapeHtml(section.title) \o <<"</h2>">>
        /\ pc = "orphaned" =>
               /\ SubSeq(ret, 1, IndexOf(ret, "</h2>"))
                    = <<"<section class=section orphaned-section>", "<h2>">>
                        \o escapeHtml(section.title) \o <<"</h2>">>
               /\ BlockBody(ret) = BlockBody(renderGenericSection(section))

\* bullet, bullet, paragraph, bullet: two lists around one paragraph
C19_Witness ==
    /\ pc = "generic"
    /\ Len(section.lines) = 4
    /\ Len(PositionsOf(ret, "<ul>")) = 2
    /\ Len(PositionsOf(ret, "<li>")) = 3
    /\ Len(PositionsOf(ret, "<p>")) = 1
    /\ IndexOf(ret, "<p>") > IndexOf(ret, "</ul>")

-----------------------------------------------------------------------------
(* Further claims on SpecGoals                                             *)

\* candidate lines as C20 states them: non-blank, starting neither with a quotation
\* mark nor with a bullet marker
IsCandidateAsStated(l) ==
    ~IsBlank(l) /\ StripSet(l, Whitespace)[1] \notin {"\"", "-", "*", "U+2022"}
CandidateLinesAsStated(lines) ==
    LET kept == SelectSeq(lines, IsCandidateAsStated) IN
    [i \in 1..Len(kept) |-> StripSet(kept[i], Whitespace)]

(* C20: the candidate lines of the Goals and Key Actions renderers are the *)
(* non-blank lines that start neither with a quotation mark nor with a     *)
(* bullet marker (-, * or the bullet character); a line starting with one  *)
(* of these never becomes an item or part of the sentence-split text.      *)
C20_BulletLinesAreAsides ==
    Rendered =>
        LET cands == CandidateLinesAsStated(section.lines)
            items == IF Len(cands) >= 3 THEN SubSeq(cands, 1, 3) ELSE SentenceItems(cands)
        IN  ListItems(ret) = [i \in 1..Len(items) |-> escapeHtml(items[i])]


\* an HTML fragment with its unordered list element made an ordered one
AsOrderedList(h) ==
    [i \in 1..Len(h) |-> CASE h[i] = "<ul>" -> "<ol>"
                           [] h[i] = "</ul>" -> "</ol>"
                           [] OTHER -> h[i]]

\* the heading of a block
HeadingOf(h) == SubSeq(h, IndexOf(h, "<h2>"), IndexOf(h, "</h2>"))

(* C21: renderGoalsSection and renderKeyActionsSection are one algorithm:  *)
(* on every section both give the same heading and the same list items,    *)
(* and the outputs differ only in the list being unordered for Goals and   *)
(* ordered for Key Actions.                                                *)
C21_GoalsEqualsKeyActions ==
    /\ pc = "goals" =>
           /\ AsOrderedList(ret) = renderKeyActionsSection(section)
           /\ ListItems(ret) = ListItems(renderKeyActionsSection(section))
           /\ HeadingOf(ret) = HeadingOf(renderKeyActionsSection(section))
           /\ Includes(ret, "<ul>") /\ ~Includes(ret, "<ol>")
    /\ pc = "keyActions" =>
           /\ ret = AsOrderedList(renderGoalsSection(section))
           /\ ListItems(ret) = ListItems(renderGoalsSection(section))
           /\ HeadingOf(ret) = HeadingOf(renderGoalsSection(section))
           /\ Includes(ret, "<ol>") /\ ~Includes(ret, "<ul>")

\* a section with a skipped line and a dash line, rendered as an ordered list by the
\* sentence-level recovery
C21_Witness ==
    /\ pc = "keyActions"
    /\ Len(section.lines) = 3
    /\ Len(CandidateLines(section.lines)) = 2
    /\ \E i \in 1..3 : section.lines[i] = <<"-", " ", "f">>
    /\ \E i \in 1..3 : section.lines[i] = <<"c", ".", "d">>
    /\ Len(ListItems(ret)) = 2
    /\ ret # renderGoalsSection(section)

-----------------------------------------------------------------------------
(* Further claims on SpecTreatment.                                        *)

\* the lines before the first phase-header line, and the lines from it on
LinesBeforeFirstPhase(lines) ==
    LET hs == PhaseHeaderIndices(lines) IN
    IF hs = <<>> THEN lines ELSE SubSeq(lines, 1, hs[1] - 1)

LinesFromFirstPhase(lines) ==
    LET hs == PhaseHeaderIndices(lines) IN
    IF hs = <<>> THEN <<>> ELSE SubSeq(lines, hs[1], Len(lines))

\* the characters of a sequence of lines
CharsOf(lines) == UNION {{l[i] : i \in 1..Len(l)} : l \in {lines[k] : k \in 1..Len(lines)}}

HeadingOnly(sec) ==
    <<"<section class=section treatment-plan-section>", "<h2>", "<span class=num>",
      sec.number, ".", "</span>", " ">> \o escapeHtml(sec.title) \o <<"</h2>", "</section>">>

(* C22: in a Treatment Plan section the lines before the first phase-header *)
(* line, the inline description included, belong to no phase and appear     *)
(* nowhere in the rendered section; with no phase-header line the rendered  *)
(* section is its numbered heading alone.                                   *)
C22_EarlyLinesAreDropped ==
    pc = "treatmentPlan" =>
        LET early == LinesBeforeFirstPhase(section.lines)
            rest == LinesFromFirstPhase(section.lines)
            cards == SelectSeq(ret, LAMBDA c : c = "<div class=treatment-phase-card>")
        IN  /\ Len(cards) = Len(PhaseHeaderIndices(section.lines))
            /\ ret = renderTreatmentPlanSection([section EXCEPT !.lines = rest])
            /\ \A c \in CharsOf(early) \ (CharsOf(rest) \cup CharsOf(<<escapeHtml(Concat(rest))>>)
                                                \cup CharsOf(<<HeadingOnly(section)>>)) :
                   ~Includes(ret, c)
            /\ rest = <<>> => ret = HeadingOnly(section)

\* a description, a content line and a Recommended line come before the only header
C22_Witness ==
    /\ pc = "treatmentPlan"
    /\ section.description = InlineDescription
    /\ section.lines = << InlineDescription, <<"Recommended", ":", " ", "2", "x">>,
                          <<KeepingYouAtYourBest, ":">> >>
    /\ Len(SelectSeq(ret, LAMBDA c : c = "<div class=treatment-phase-card>")) = 1
    /\ ~Includes(ret, "z") /\ ~Includes(ret, "2")

\* no phase header: the content is gone and the heading is all there is
C22_WitnessNoPhase ==
    /\ pc = "treatmentPlan"
    /\ section.lines = << <<"a">>, <<" ", "b", "&", " ">>, <<"Recommended", ":", " ", "2", "x">> >>
    /\ Len(ret) = 10
    /\ ~Includes(ret, "a")

-----------------------------------------------------------------------------
(* SpecPdf: the /api/pdf handler, server.js 1012-1119. One request; every  *)
(* awaited puppeteer call either resolves or rejects.                      *)

\* a JSON null in the request body (a missing field takes the default '')
JsonNull == <<"null">>

PdfTexts == {<<>>, <<"a", "<", "\n", "b">>,
             Join(<< <<"3", ".", " ", "Goals", ":">>, <<"g", ".", " ", "h">> >>, NL)}
PdfPatientNames == {<<>>, <<"P">>, <<"P", " ", " ", "Q", "<", "-", "1">>}
PdfTherapistNames == {<<>>, <<"Elle Badrak">>, JsonNull}

NoResponse == [status |-> 0, contentType |-> "", disposition |-> <<>>, body |-> <<>>]

AlphaNumeric ==
    {"a", "b", "c", "d", "e", "f", "g", "h", "i", "j", "k", "l", "m", "n", "o", "p", "q", "r",
     "s", "t", "u", "v", "w", "x", "y", "z",
     "A", "B", "C", "D", "E", "F", "G", "H", "I", "J", "K", "L", "M", "N", "O", "P", "Q", "R",
     "S", "T", "U", "V", "W", "X", "Y", "Z",
     "0", "1", "2", "3", "4", "5", "6", "7", "8", "9"}

\* .replace(/\s+/g, '-')
RECURSIVE WhitespaceRunsToDash(_)
WhitespaceRunsToDash(s) ==
    IF s = <<>> THEN <<>>
    ELSE IF Head(s) \in Whitespace \cup {"\n"}
    THEN IF Tail(s) # <<>> /\ Head(Tail(s)) \in Whitespace \cup {"\n"}
         THEN WhitespaceRunsToDash(Tail(s))
         ELSE <<"-">> \o WhitespaceRunsToDash(Tail(s))
    ELSE <<Head(s)>> \o WhitespaceRunsToDash(Tail(s))

\* 1049: the name of the attachment
Filename(patient) ==
    IF patient # <<>>
    THEN <<"massage-treatment-plan-">>
         \o WhitespaceRunsToDash(SelectSeq(patient,
                LAMBDA c : c \in AlphaNumeric \cup Whitespace \cup {"\n", "-"}))
         \o <<".pdf">>
    ELSE <<"massage-treatment-plan.pdf">>

\* 1056-1106: html.replace('</head>', style + script + '</head>'), the first occurrence
PrintHtml(html) ==
    LET i == IndexOf(html, "</head>") IN
    IF i = 0 THEN html
    ELSE SubSeq(html, 1, i - 1)
         \o <<"<style>print-instructions</style>", "<script>window.print()</script>", "</head>">>
         \o SubSeq(html, i + 1, Len(html))

\* 915: escapeHtml(therapistName) is evaluated when patientName is truthy; null.replace throws
TemplateThrows == patientName # <<>> /\ therapistName = JsonNull

InitPdf ==
    /\ pc = "request"
    /\ planText \in PdfTexts
    /\ patientName \in PdfPatientNames
    /\ therapistName \in PdfTherapistNames
    /\ browser = "none"
    /\ res = NoResponse
    /\ sections = Idle /\ qrCodeHtml = Idle /\ qrCodeDataUrl = Idle
    /\ section = Idle /\ text = Idle /\ ret = Idle

\* 1015: if (!planText) return res.status(400).json(...)
PdfMissingPlanText ==
    /\ pc = "request"
    /\ planText = <<>>
    /\ res' = [status |-> 400, contentType |-> "application/json", disposition |-> <<>>,
               body |-> <<"Missing planText">>]
    /\ pc' = "sent"
    /\ UNCHANGED <<browser, planText, patientName, therapistName, sections, qrCodeHtml, qrCodeDataUrl, section, text, ret>>

\* 1017: renderStructuredHtml is called
PdfCallRender ==
    /\ pc = "request"
    /\ planText # <<>>
    /\ pc' = "start"
    /\ UNCHANGED <<browser, res, planText, patientName, therapistName, sections, qrCodeHtml, qrCodeDataUrl, section, text, ret>>

\* 1017: const html = await renderStructuredHtml(...); ret holds html
PdfHtmlReady ==
    /\ ~TemplateThrows
    /\ Assemble

\* 1017, 1111-1118: renderStructuredHtml rejected; the outer catch answers 500
PdfRenderThrows ==
    /\ pc = "assemble"
    /\ TemplateThrows
    /\ res' = [status |-> 500, contentType |-> "application/json", disposition |-> <<>>,
               body |-> <<"Failed to create PDF">>]
    /\ pc' = "sent"
    /\ UNCHANGED <<browser, planText, patientName, therapistName, sections, qrCodeHtml, qrCodeDataUrl, section, text, ret>>

\* 1021-1035: puppeteer.launch resolved
PdfLaunch ==
    /\ pc = "done"
    /\ browser' = "running"
    /\ pc' = "launched"
    /\ UNCHANGED <<res, planText, patientName, therapistName, sections, qrCodeHtml, qrCodeDataUrl, section, text, ret>>

\* 1021, 1052: puppeteer.launch rejected; no browser was started
PdfLaunchFails ==
    /\ pc = "done"
    /\ pc' = "fallback"
    /\ UNCHANGED <<browser, res, planText, patientName, therapistName, sections, qrCodeHtml, qrCodeDataUrl, section, text, ret>>

\* 1036: browser.newPage resolved
PdfNewPage ==
    /\ pc = "launched"
    /\ pc' = "page"
    /\ UNCHANGED <<browser, res, planText, patientName, therapistName, sections, qrCodeHtml, qrCodeDataUrl, section, text, ret>>

\* 1037: page.setContent resolved
PdfSetContent ==
    /\ pc = "page"
    /\ pc' = "content"
    /\ UNCHANGED <<browser, res, planText, patientName, therapistName, sections, qrCodeHtml, qrCodeDataUrl, section, text, ret>>

\* 1038-1045: page.pdf resolved
PdfPrint ==
    /\ pc = "content"
    /\ pc' = "printed"
    /\ UNCHANGED <<browser, res, planText, patientName, therapistName, sections, qrCodeHtml, qrCodeDataUrl, section, text, ret>>

\* 1036-1045, 1052: newPage, setContent or page.pdf rejected; control goes to the catch
\* of 1052, which has no browser.close()
PdfStepFails ==
    /\ pc \in {"launched", "page", "content"}
    /\ pc' = "fallback"
    /\ UNCHANGED <<browser, res, planText, patientName, therapistName, sections, qrCodeHtml, qrCodeDataUrl, section, text, ret>>

\* 1046: browser.close resolved
PdfClose ==
    /\ pc = "printed"
    /\ browser' = "closed"
    /\ pc' = "closed"
    /\ UNCHANGED <<res, planText, patientName, therapistName, sections, qrCodeHtml, qrCodeDataUrl, section, text, ret>>

\* 1046, 1052: browser.close rejected; the browser may or may not have gone
PdfCloseFails ==
    /\ pc = "printed"
    /\ browser' \in {"running", "closed"}
    /\ pc' = "fallback"
    /\ UNCHANGED <<res, planText, patientName, therapistName, sections, qrCodeHtml, qrCodeDataUrl, section, text, ret>>

\* 1048-1051: the PDF is sent as an attachment
PdfSendPdf ==
    /\ pc = "closed"
    /\ res' = [status |-> 200, contentType |-> "application/pdf",
               disposition |-> <<"attachment; filename=">> \o Filename(patientName),
               body |-> <<"%PDF">> \o ret]
    /\ pc' = "sent"
    /\ UNCHANGED <<browser, planText, patientName, therapistName, sections, qrCodeHtml, qrCodeDataUrl, section, text, ret>>

\* 1052-1109: the catch sends the page with print instructions
PdfSendPrintHtml ==
    /\ pc = "fallback"
    /\ res' = [status |-> 200, contentType |-> "text/html", disposition |-> <<>>,
               body |-> PrintHtml(ret)]
    /\ pc' = "sent"
    /\ UNCHANGED <<browser, planText, patientName, therapistName, sections, qrCodeHtml, qrCodeDataUrl, section, text, ret>>

NextPdf ==
    \/ PdfMissingPlanText \/ PdfCallRender
    \/ BeginNoQr \/ BeginAwaitQr \/ QrResolved \/ QrFailed
    \/ PdfHtmlReady \/ PdfRenderThrows
    \/ PdfLaunch \/ PdfLaunchFails \/ PdfNewPage \/ PdfSetContent \/ PdfPrint \/ PdfStepFails
    \/ PdfClose \/ PdfCloseFails \/ PdfSendPdf \/ PdfSendPrintHtml

SpecPdf == InitPdf /\ [][NextPdf]_vars

(* C23: in the /api/pdf handler every browser that was launched is closed  *)
(* before the response is sent, on the successful path and on every path   *)
(* where page creation, content loading or PDF generation fails and the    *)
(* print page is sent instead.                                             *)
C23_BrowserClosedBeforeResponse ==
    pc = "sent" => browser # "running"

=============================================================================
